---- MODULE Spec2Model ----
(***************************************************************************)
(* The PostgreSQL-backed key-value backend (lib/backend/pgbk).  The table  *)
(* kv is a set of rows; every backend operation is one SQL statement,      *)
(* executed atomically by the store at the store's own time now().         *)
(***************************************************************************)
EXTENDS Integers, Sequences, FiniteSets, TLC

(* ------------------------------ bounds -------------------------------- *)

\* the store's clock runs over 1..MaxTime
MaxTime == 2
\* number of revisions newRevision() hands out in one run
MaxRev == 3
\* the configured cfg.ExpiryBatchSize of the modelled backend
ExpiryBatchSize == 1
\* the configured cfg.ChangeFeedBatchSize of the modelled backend
ChangeFeedBatchSize == 2
\* the number of events a watcher of the watch buffer can hold unread
BufferCapacity == 1
\* the number of row changes the change feed is followed for
MaxChanges == 3
\* the number of times pgcommon.Retry runs the statement of one call
MaxAttempts == 2
\* the gateways that are made in a run
MaxGateways == 3
\* a time.Time counts SubTicks units (nanoseconds) for each unit of the
\* store's timestamptz (microseconds)
SubTicks == 2

(* ------------------------------ values -------------------------------- *)

\* keys are byte strings, ordered as bytea
Keys == {<<1>>, <<1, 1>>}
Values == {"1", "2"}
\* the zero time.Time, which backend.Item uses for "no expiry"
ZeroTime == 0
\* SQL NULL in the nullable column expires
NULL == -1
\* the expiry times a caller may pass, as time.Time: none, a whole tick of
\* the store's clock after its start, or a time between two ticks
Times ==
    {ZeroTime} \cup {t * SubTicks : t \in 2..MaxTime} \cup {MaxTime * SubTicks + 1}
\* the limits a caller may pass to GetRange
Limits == {-1, 0, 1}
DefaultRangeLimit == 2000000

Items == [key : Keys, value : Values, expires : Times]
\* the items with key k
ItemsOn(k) == {i \in Items : i.key = k}

VARIABLES rows, now, nextRev, ret, calls,
          cfg, ctx, wg, loops, closePc, pool, poolConfig,
          stream, feedPos, buf, watchers,
          reloginMu, semC, gor, gateways, closed, nextGateway, reply, stop

vars ==
    <<rows, now, nextRev, ret, calls,
      cfg, ctx, wg, loops, closePc, pool, poolConfig,
      stream, feedPos, buf, watchers,
      reloginMu, semC, gor, gateways, closed, nextGateway, reply, stop>>

\* the state of the daemon service (lib/teleterm/daemon), which the
\* backend never touches
daemonVars ==
    <<reloginMu, semC, gor, gateways, closed, nextGateway, reply, stop>>

\* the backend's own state, which no call of a KV operation changes, and
\* with it the daemon's
bgVars ==
    <<cfg, ctx, wg, loops, closePc, pool, poolConfig, feedPos, buf, watchers,
      daemonVars>>

\* the state of the backend and its store, which the daemon never touches
pgbkVars ==
    <<rows, now, nextRev, ret, calls,
      cfg, ctx, wg, loops, closePc, pool, poolConfig,
      stream, feedPos, buf, watchers>>

(* ------------------------- SQL building blocks ------------------------ *)

\* a plain Timestamptz: the zero time is stored as a timestamp, not as NULL
ToTimestamptzPlain(t) == t \div SubTicks

\* zeronull.Timestamptz(t.UTC()): the zero time is stored as NULL, any other
\* time as a timestamptz, which drops what is below the store's unit
ToTimestamptz(t) == IF t = ZeroTime THEN NULL ELSE t \div SubTicks

\* time.Time(expires).UTC() of a scanned zeronull.Timestamptz
FromTimestamptz(e) == IF e = NULL THEN ZeroTime ELSE e * SubTicks

\* kv.expires IS NULL OR kv.expires > now()
Live(r, t) == r.expires = NULL \/ r.expires > t

\* kv.expires IS NOT NULL AND kv.expires <= now()
Expired(r, t) == r.expires # NULL /\ r.expires <= t

\* bytea comparison a < b: bytewise, a proper prefix sorts first
KeyLess(a, b) ==
    \E n \in 1..Len(b) :
        /\ Len(a) >= n - 1
        /\ \A j \in 1..(n - 1) : a[j] = b[j]
        /\ (Len(a) = n - 1 \/ a[n] < b[n])

KeyLE(a, b) == a = b \/ KeyLess(a, b)

\* kv.key BETWEEN lo AND hi
Between(k, lo, hi) == KeyLE(lo, k) /\ KeyLE(k, hi)

\* the row VALUES ($1, $2, $3, $4)
NewRow(k, v, e, rev) ==
    [key |-> k, value |-> v, expires |-> ToTimestamptz(e), revision |-> rev]

\* CONSTRAINT kv_pkey PRIMARY KEY (key): the rows an INSERT conflicts with
Conflict(tbl, k) == {r \in tbl : r.key = k}

\* the state of key k as the WHERE clauses see it at time t
PreOf(tbl, k, t) ==
    IF Conflict(tbl, k) = {} THEN "absent"
    ELSE IF \E r \in Conflict(tbl, k) : Live(r, t) THEN "live"
    ELSE "expired"

(* --------------------------- SQL statements --------------------------- *)
(* Each statement yields the table after it and the command tag's         *)
(* RowsAffected().                                                        *)

\* Create with ON CONFLICT (key) DO NOTHING: an expired row blocks the insert
CreateStmtDoNothing(tbl, i, rev, t) ==
    IF Conflict(tbl, i.key) = {}
    THEN [tbl |-> tbl \cup {NewRow(i.key, i.value, i.expires, rev)}, n |-> 1]
    ELSE [tbl |-> tbl, n |-> 0]

\* INSERT ... ON CONFLICT (key) DO UPDATE SET ... WHERE kv.expires IS NOT
\* NULL AND kv.expires <= now()
CreateStmt(tbl, i, rev, t) ==
    LET upd == {r \in Conflict(tbl, i.key) : Expired(r, t)}
        new == NewRow(i.key, i.value, i.expires, rev)
    IN  IF Conflict(tbl, i.key) = {}
        THEN [tbl |-> tbl \cup {new}, n |-> 1]
        ELSE [tbl |-> (tbl \ upd) \cup {new : r \in upd}, n |-> Cardinality(upd)]

\* Put as a plain INSERT that adds a row whatever the key holds
PutStmtPlainInsert(tbl, i, rev) ==
    [tbl |-> tbl \cup {NewRow(i.key, i.value, i.expires, rev)}, n |-> 1]

\* Put that, like Create, overwrites only an expired row
PutStmtOnlyExpired(tbl, i, rev) ==
    LET upd == {r \in Conflict(tbl, i.key) : r.expires # NULL}
        new == NewRow(i.key, i.value, i.expires, rev)
    IN  IF Conflict(tbl, i.key) = {}
        THEN [tbl |-> tbl \cup {new}, n |-> 1]
        ELSE [tbl |-> (tbl \ upd) \cup {new : r \in upd}, n |-> Cardinality(upd)]

\* INSERT ... ON CONFLICT (key) DO UPDATE SET value, expires, revision
PutStmt(tbl, i, rev) ==
    LET upd == Conflict(tbl, i.key)
        new == NewRow(i.key, i.value, i.expires, rev)
    IN  IF upd = {}
        THEN [tbl |-> tbl \cup {new}, n |-> 1]
        ELSE [tbl |-> (tbl \ upd) \cup {new : r \in upd}, n |-> Cardinality(upd)]

\* CompareAndSwap whose WHERE clause lost "AND kv.value = $5"
CompareAndSwapStmtNoCompare(tbl, expectedValue, i, rev, t) ==
    LET upd == {r \in tbl : r.key = i.key /\ Live(r, t)}
    IN  [tbl |-> (tbl \ upd) \cup
                 {[r EXCEPT !.value = i.value,
                            !.expires = ToTimestamptz(i.expires),
                            !.revision = rev] : r \in upd},
         n |-> Cardinality(upd)]

\* UPDATE kv SET value, expires, revision WHERE key = $4 AND value = $5 AND live
CompareAndSwapStmt(tbl, expectedValue, i, rev, t) ==
    LET upd == {r \in tbl : r.key = i.key /\ r.value = expectedValue /\ Live(r, t)}
    IN  [tbl |-> (tbl \ upd) \cup
                 {[r EXCEPT !.value = i.value,
                            !.expires = ToTimestamptz(i.expires),
                            !.revision = rev] : r \in upd},
         n |-> Cardinality(upd)]

\* an Update whose WHERE clause lost "kv.key = $4": every live row is set
UpdateStmtAnyKey(tbl, i, rev, t) ==
    LET upd == {r \in tbl : Live(r, t)}
    IN  [tbl |-> (tbl \ upd) \cup
                 {[r EXCEPT !.value = i.value,
                            !.expires = ToTimestamptz(i.expires),
                            !.revision = rev] : r \in upd},
         n |-> Cardinality(upd)]

\* UPDATE kv SET value, expires, revision WHERE key = $4 AND live
UpdateStmt(tbl, i, rev, t) ==
    LET upd == {r \in tbl : r.key = i.key /\ Live(r, t)}
    IN  [tbl |-> (tbl \ upd) \cup
                 {[r EXCEPT !.value = i.value,
                            !.expires = ToTimestamptz(i.expires),
                            !.revision = rev] : r \in upd},
         n |-> Cardinality(upd)]

\* KeepAlive that sets the expiry and keeps the old revision
KeepAliveStmtSameRevision(tbl, k, e, rev, t) ==
    LET upd == {r \in tbl : r.key = k /\ Live(r, t)}
    IN  [tbl |-> (tbl \ upd) \cup
                 {[r EXCEPT !.expires = ToTimestamptz(e)] : r \in upd},
         n |-> Cardinality(upd)]

\* a KeepAlive that only extends rows which have an expiry
KeepAliveStmtOnlyExpiring(tbl, k, e, rev, t) ==
    LET upd == {r \in tbl : r.key = k /\ Live(r, t) /\ r.expires # NULL}
    IN  [tbl |-> (tbl \ upd) \cup
                 {[r EXCEPT !.expires = ToTimestamptz(e),
                            !.revision = rev] : r \in upd},
         n |-> Cardinality(upd)]

\* a KeepAlive whose WHERE clause lost the expiry test
KeepAliveStmtAnyRow(tbl, k, e, rev, t) ==
    LET upd == {r \in tbl : r.key = k}
    IN  [tbl |-> (tbl \ upd) \cup
                 {[r EXCEPT !.expires = ToTimestamptz(e),
                            !.revision = rev] : r \in upd},
         n |-> Cardinality(upd)]

\* UPDATE kv SET expires, revision WHERE key = $3 AND live
KeepAliveStmt(tbl, k, e, rev, t) ==
    LET upd == {r \in tbl : r.key = k /\ Live(r, t)}
    IN  [tbl |-> (tbl \ upd) \cup
                 {[r EXCEPT !.expires = ToTimestamptz(e),
                            !.revision = rev] : r \in upd},
         n |-> Cardinality(upd)]

\* Delete whose WHERE clause lost the expiry test
DeleteStmtAnyRow(tbl, k, t) ==
    LET del == {r \in tbl : r.key = k}
    IN  [tbl |-> tbl \ del, n |-> Cardinality(del)]

\* a Delete that also clears an expired row away and does not count it
DeleteStmtClearsExpired(tbl, k, t) ==
    LET del == {r \in tbl : r.key = k}
    IN  [tbl |-> tbl \ del,
         n |-> Cardinality({r \in del : Live(r, t)})]

\* DELETE FROM kv WHERE key = $1 AND live
DeleteStmt(tbl, k, t) ==
    LET del == {r \in tbl : r.key = k /\ Live(r, t)}
    IN  [tbl |-> tbl \ del, n |-> Cardinality(del)]

\* DELETE FROM kv WHERE key BETWEEN $1 AND $2
\* a range that leaves out its end key: key >= $1 AND key < $2
DeleteRangeStmtHalfOpen(tbl, lo, hi) ==
    LET del == {r \in tbl : KeyLE(lo, r.key) /\ KeyLess(r.key, hi)}
    IN  [tbl |-> tbl \ del, n |-> Cardinality(del)]

DeleteRangeStmt(tbl, lo, hi) ==
    LET del == {r \in tbl : Between(r.key, lo, hi)}
    IN  [tbl |-> tbl \ del, n |-> Cardinality(del)]

\* the backend.Item built from a scanned row
ItemOf(r) ==
    [key |-> r.key, value |-> r.value, expires |-> FromTimestamptz(r.expires)]

\* ORDER BY kv.key
RECURSIVE OrderByKey(_)
OrderByKey(S) ==
    IF S = {} THEN <<>>
    ELSE LET m == CHOOSE r \in S : \A q \in S : KeyLE(r.key, q.key)
         IN  <<m>> \o OrderByKey(S \ {m})

\* LIMIT that lets one row too many through
LimitOneMore(s, n) == SubSeq(s, 1, IF n + 1 < Len(s) THEN n + 1 ELSE Len(s))

\* LIMIT $3
Limit(s, n) == SubSeq(s, 1, IF n < Len(s) THEN n ELSE Len(s))

\* Get whose WHERE clause lost the expiry test
GetQueryAnyRow(tbl, k, t) ==
    LET found == {r \in tbl : r.key = k}
    IN  IF found = {} THEN <<>> ELSE <<ItemOf(CHOOSE r \in found : TRUE)>>

\* SELECT ... WHERE key = $1 AND live, read with QueryRow: the first row, if any
GetQuery(tbl, k, t) ==
    LET found == {r \in tbl : r.key = k /\ Live(r, t)}
    IN  IF found = {} THEN <<>> ELSE <<ItemOf(CHOOSE r \in found : TRUE)>>

\* SELECT ... WHERE key BETWEEN $1 AND $2 AND live ORDER BY key LIMIT $3
GetRangeQuery(tbl, lo, hi, limit, t) ==
    LET found == {r \in tbl : Between(r.key, lo, hi) /\ Live(r, t)}
        sorted == Limit(OrderByKey(found), limit)
    IN  [n \in 1..Len(sorted) |-> ItemOf(sorted[n])]

(* ------------------------------- state -------------------------------- *)
(* rows     the table kv                                                  *)
(* now      the store's clock, read by now() in every statement           *)
(* nextRev  the next value newRevision() returns                          *)
(* calls    per caller, a CompareAndSwap or Create call in flight: its    *)
(*          operation and arguments, the revision it drew, where it       *)
(*          stands (pc), and once its                                     *)
(*          statement has run the revision of the row it found at the key *)
(*          (saw, 0 for no row), whether another caller's call was in     *)
(*          flight then (overlapped), the attempts of its statement that  *)
(*          failed (tries) and the error it returned                      *)
(* ret      the most recent backend call: its operation and key (range    *)
(*          and limit for GetRange), the state of its key when its        *)
(*          statement ran (pre), the error and the items it returned      *)
(* cfg      the Config the backend was made with                          *)
(* ctx      the context NewWithConfig derives for the background loops    *)
(* wg       the counter of the WaitGroup b.wg                             *)
(* loops    the two background loops: where backgroundExpiry and          *)
(*          backgroundChangeFeed stand, and which of them failed in its   *)
(*          last cycle                                                    *)
(* closePc  the position of a call of Close                               *)
(* pool     the connection pool b.pool                                    *)
(* poolConfig  the configuration the pool was made with: the default      *)
(*          transaction isolation of its connections, and whether         *)
(*          NewWithConfig logged that the connection string overrides it  *)
(* stream   the row changes the store has kept for the change feed, in    *)
(*          commit order, since the feed attached                         *)
(* feedPos  how many of them the change feed has read                     *)
(* buf      the watch buffer b.buf: whether it is closed, and how many    *)
(*          events it has been given                                      *)
(* watchers per watcher the buffer has registered: its state, the count  *)
(*          of events the buffer had been given when it subscribed (sub), *)
(*          the events it holds unread (queue), those its reader has      *)
(*          taken (got), and whether it was closed for falling behind     *)
(*          (overflow)                                                    *)

NoKey == <<>>

Call(op, key) ==
    [op |-> op, key |-> key, endKey |-> NoKey, limit |-> 0,
     pre |-> "none", err |-> "OK", items |-> <<>>]

\* the callers that issue calls concurrently
Procs == {1, 2}

NoCall ==
    [pc |-> "idle", op |-> "none", key |-> NoKey, expValue |-> "", value |-> "",
     expires |-> ZeroTime, rev |-> 0, saw |-> 0, overlapped |-> FALSE,
     tries |-> 0, err |-> "OK"]

\* the watchers that may subscribe
Watchers == {1, 2}

\* a watcher the buffer has registered is "waiting" until the buffer is
\* initialised, then "open" until it is closed
NoWatcher ==
    [state |-> "none", sub |-> 0, queue |-> <<>>, got |-> <<>>,
     overflow |-> FALSE]

\* what a connection string says about default_transaction_isolation:
\* nothing, or a value, which may be empty
ConnStrings ==
    {<<>>} \cup {<<v>> : v \in {"", "read committed", "serializable"}}

\* the configurations the backend is made with, with a connection string
\* that leaves the transaction isolation alone
Configs == [DisableExpiry : BOOLEAN, ConnString : {<<>>}]

\* the configurations with any connection string
StartConfigs == [DisableExpiry : BOOLEAN, ConnString : ConnStrings]

\* poolConfig.ConnConfig.RuntimeParams["default_transaction_isolation"]
\* after pgxpool.ParseConfig: the value the connection string sets, and the
\* empty string when it sets none
RuntimeParam(cs) == IF cs = <<>> THEN "" ELSE cs[1]

\* before there is a pool
NoPoolConfig == [isolation |-> "", overridden |-> FALSE]

\* a pool that is made serializable whatever the connection string says
PoolConfigSerializable(c) == [isolation |-> "serializable", overridden |-> FALSE]

\* the pool configuration NewWithConfig ends up with: a non-empty
\* default_transaction_isolation is kept and an error is logged, otherwise
\* the parameter is set to serializable
PoolConfig(c) ==
    IF RuntimeParam(c.ConnString) # ""
    THEN [isolation |-> RuntimeParam(c.ConnString), overridden |-> TRUE]
    ELSE [isolation |-> "serializable", overridden |-> FALSE]

\* NewWithConfig with a loop for every configuration
LoopsStartedAlways(c) ==
    [expiry |-> "running", feed |-> "connecting", failed |-> {}]

\* the loops NewWithConfig starts: backgroundExpiry unless
\* cfg.DisableExpiry, and backgroundChangeFeed
LoopsStarted(c) ==
    [expiry |-> IF c.DisableExpiry THEN "off" ELSE "running",
     feed |-> "connecting", failed |-> {}]

\* the number of loops that have been started and have not returned
Running(l) ==
    (IF l.expiry = "running" THEN 1 ELSE 0)
       + (IF l.feed \in {"connecting", "streaming"} THEN 1 ELSE 0)

(* ------------------------- the daemon's values ------------------------ *)
(* reloginMu    Service.reloginMu: 0 when unlocked, else the goroutine    *)
(*              that holds it                                             *)
(* semC         the number of elements in the channel semC of             *)
(*              Service.importantModalSemaphore                           *)
(* gor          per goroutine, a call of retryWithRelogin or another use  *)
(*              of the important modal: where it stands (pc), how often   *)
(*              it has called fn (fnCalls) and what the first call        *)
(*              returned (first), what relogin returned (relogin), the    *)
(*              Relogin events it has sent to the app (sent), whether     *)
(*              Acquire has returned nil to it and Release has not run    *)
(*              since (holds), and the error it returned (err)            *)
(* gateways     Service.gateways, a set of entries key -> gateway         *)
(* closed       the gateways on which Close has succeeded                 *)
(* nextGateway  the identity of the next gateway that is made             *)
(* reply        what the last gateway call returned                       *)
(* stop         a call of Service.Stop: where it stands (pc), the         *)
(*              gateways its loop has visited (seen), whether the         *)
(*              headless watchers (headless) and the usage reporter       *)
(*              (reporter) have been stopped, and the close context       *)

\* the Electron app can display one important modal at a time
maxConcurrentImportantModals == 1

\* the goroutines that call retryWithRelogin
Callers == {1, 2}
\* a goroutine that shows another important modal
ModalUsers == {3}
Goroutines == Callers \cup ModalUsers

NoGor ==
    [pc |-> "idle", fnCalls |-> 0, first |-> "none", relogin |-> "none",
     sent |-> 0, holds |-> FALSE, err |-> "none"]

\* the target URIs CreateGateway is called with: a kube cluster, a
\* database, and one that does not parse
Targets == {"kube", "db", "?"}
IsKube(t) == t = "kube"
\* uri.ParseGatewayTargetURI succeeds
Parses(t) == t # "?"
\* local ports
Ports == {"1", "2"}

NoGateway == [id |-> 0, uri |-> 0, target |-> "", port |-> ""]
NoReply == [op |-> "none", key |-> 0, err |-> "OK", gw |-> NoGateway]

\* the daemon as New returns it, with the tshd events client dialled
InitDaemon ==
    /\ reloginMu = 0
    /\ semC = 0
    /\ gor = [p \in Goroutines |-> NoGor]
    /\ gateways = {}
    /\ closed = {}
    /\ nextGateway = 1
    /\ reply = NoReply
    /\ stop = [pc |-> "idle", seen |-> {}, headless |-> "running",
               reporter |-> "running", closeContext |-> "active"]

\* an empty store, no call made, beside a daemon just made
InitStore ==
    /\ InitDaemon
    /\ rows = {}
    /\ now = 1
    /\ nextRev = 1
    /\ ret = Call("none", NoKey)
    /\ calls = [p \in Procs |-> NoCall]
    /\ stream = <<>>
    /\ feedPos = 0
    /\ buf = [closed |-> FALSE, emitted |-> 0]
    /\ watchers = <<>>
    /\ closePc = "idle"

\* the Backend NewWithConfig builds for the configuration c, with its
\* loops started
NewBackend(c) ==
    [cfg |-> c, ctx |-> "active", loops |-> LoopsStarted(c),
     wg |-> Running(LoopsStarted(c)), pool |-> "open",
     poolConfig |-> PoolConfig(c)]

\* the backend is as NewWithConfig(c) returns it
Started(c) ==
    /\ cfg = NewBackend(c).cfg
    /\ ctx = NewBackend(c).ctx
    /\ loops = NewBackend(c).loops
    /\ wg = NewBackend(c).wg
    /\ pool = NewBackend(c).pool
    /\ poolConfig = NewBackend(c).poolConfig

\* a backend just made with the default configuration, on an empty store
Init == InitStore /\ Started([DisableExpiry |-> FALSE, ConnString |-> <<>>])

\* the row changes between two tables, in key order: a row that is new or
\* changed as a put of its item, a row that is gone as a delete of its key;
\* lsn is the place of the change in the store's change stream, after the
\* at changes before it
Changes(old, new, at) ==
    LET touched ==
            (new \ old) \cup {r \in old \ new : Conflict(new, r.key) = {}}
        ordered == OrderByKey(touched)
    IN  [n \in 1..Len(ordered) |->
            IF ordered[n] \in new
            THEN [op |-> "Put", key |-> ordered[n].key,
                  value |-> ordered[n].value,
                  expires |-> FromTimestamptz(ordered[n].expires),
                  lsn |-> at + n]
            ELSE [op |-> "Delete", key |-> ordered[n].key,
                  value |-> "", expires |-> ZeroTime, lsn |-> at + n]]

\* a change stream that keeps no delete
ReplicatePutsOnly ==
    stream' = IF loops.feed = "streaming"
              THEN stream \o SelectSeq(Changes(rows, rows', Len(stream)),
                                       LAMBDA c : c.op = "Put")
              ELSE stream

\* the publication kv_pub: once the change feed is attached the store keeps
\* every committed row change for it
Replicate ==
    stream' = IF loops.feed = "streaming"
              THEN stream \o Changes(rows, rows', Len(stream))
              ELSE stream

\* newRevision(): an id no earlier call has drawn
newRevision == nextRev

\* newLease(i) or the error of a conditional write
Outcome(affected, failure) == IF affected > 0 THEN "OK" ELSE failure

(* ------------------------- backend operations ------------------------- *)

\* Backend.Create
Create(i) ==
    /\ pool = "open"
    /\ nextRev <= MaxRev
    /\ LET st == CreateStmt(rows, i, newRevision, now)
       IN  /\ rows' = st.tbl
           /\ ret' = [Call("Create", i.key) EXCEPT
                         !.pre = PreOf(rows, i.key, now),
                         !.err = Outcome(st.n, "AlreadyExists")]
    /\ nextRev' = nextRev + 1
    /\ Replicate
    /\ UNCHANGED <<now, calls, bgVars>>

\* Backend.Put
Put(i) ==
    /\ pool = "open"
    /\ nextRev <= MaxRev
    /\ LET st == PutStmt(rows, i, newRevision)
       IN  /\ rows' = st.tbl
           /\ ret' = [Call("Put", i.key) EXCEPT
                         !.pre = PreOf(rows, i.key, now)]
    /\ nextRev' = nextRev + 1
    /\ Replicate
    /\ UNCHANGED <<now, calls, bgVars>>

\* a CompareAndSwap that runs its statement without comparing the keys
CompareAndSwapNoKeyCheck(expected, replaceWith) ==
    /\ pool = "open"
    /\ nextRev <= MaxRev
    /\ LET st == CompareAndSwapStmt(rows, expected.value, replaceWith,
                                    newRevision, now)
       IN  /\ rows' = st.tbl
           /\ ret' = [Call("CompareAndSwap", replaceWith.key) EXCEPT
                         !.pre = PreOf(rows, replaceWith.key, now),
                         !.err = Outcome(st.n, "CompareFailed")]
    /\ nextRev' = nextRev + 1
    /\ Replicate
    /\ UNCHANGED <<now, calls, bgVars>>

\* Backend.CompareAndSwap
CompareAndSwap(expected, replaceWith) ==
    LET call == Call("CompareAndSwap", replaceWith.key)
    IN  IF expected.key # replaceWith.key
        THEN /\ pool = "open"
             /\ ret' = [call EXCEPT !.err = "BadParameter"]
             /\ UNCHANGED <<rows, now, nextRev, calls, stream, bgVars>>
        ELSE /\ pool = "open"
             /\ nextRev <= MaxRev
             /\ LET st == CompareAndSwapStmt(rows, expected.value, replaceWith,
                                             newRevision, now)
                IN  /\ rows' = st.tbl
                    /\ ret' = [call EXCEPT
                                  !.pre = PreOf(rows, replaceWith.key, now),
                                  !.err = Outcome(st.n, "CompareFailed")]
             /\ nextRev' = nextRev + 1
             /\ Replicate
    /\ UNCHANGED <<now, calls, bgVars>>

\* Backend.Update
Update(i) ==
    /\ pool = "open"
    /\ nextRev <= MaxRev
    /\ LET st == UpdateStmt(rows, i, newRevision, now)
       IN  /\ rows' = st.tbl
           /\ ret' = [Call("Update", i.key) EXCEPT
                         !.pre = PreOf(rows, i.key, now),
                         !.err = Outcome(st.n, "NotFound")]
    /\ nextRev' = nextRev + 1
    /\ Replicate
    /\ UNCHANGED <<now, calls, bgVars>>

\* Backend.Get
Get(k) ==
    /\ pool = "open"
    /\ LET item == GetQuery(rows, k, now)
       IN  ret' = [Call("Get", k) EXCEPT
                      !.pre = PreOf(rows, k, now),
                      !.err = IF item = <<>> THEN "NotFound" ELSE "OK",
                      !.items = item]
    /\ UNCHANGED <<rows, now, nextRev, calls, stream, bgVars>>

\* a GetRange that hands the caller's limit to the query as it is
GetRangeLimitAsGiven(startKey, endKey, limit) ==
    /\ pool = "open"
    /\ ret' = [Call("GetRange", startKey) EXCEPT
                  !.endKey = endKey, !.limit = limit,
                  !.items = GetRangeQuery(rows, startKey, endKey, limit, now)]
    /\ UNCHANGED <<rows, now, nextRev, calls, stream, bgVars>>

\* Backend.GetRange
GetRange(startKey, endKey, limit) ==
    /\ pool = "open"
    /\ LET lim == IF limit <= 0 THEN DefaultRangeLimit ELSE limit
       IN  ret' = [Call("GetRange", startKey) EXCEPT
                      !.endKey = endKey, !.limit = limit,
                      !.items = GetRangeQuery(rows, startKey, endKey, lim, now)]
    /\ UNCHANGED <<rows, now, nextRev, calls, stream, bgVars>>

\* Backend.Delete
Delete(k) ==
    /\ pool = "open"
    /\ LET st == DeleteStmt(rows, k, now)
       IN  /\ rows' = st.tbl
           /\ ret' = [Call("Delete", k) EXCEPT
                         !.pre = PreOf(rows, k, now),
                         !.err = Outcome(st.n, "NotFound")]
    /\ Replicate
    /\ UNCHANGED <<now, nextRev, calls, bgVars>>

\* Backend.DeleteRange
DeleteRange(startKey, endKey) ==
    /\ pool = "open"
    /\ rows' = DeleteRangeStmt(rows, startKey, endKey).tbl
    /\ ret' = [Call("DeleteRange", startKey) EXCEPT
                  !.endKey = endKey]
    /\ Replicate
    /\ UNCHANGED <<now, nextRev, calls, bgVars>>

\* Backend.KeepAlive
KeepAlive(lease, expires) ==
    /\ pool = "open"
    /\ nextRev <= MaxRev
    /\ LET st == KeepAliveStmt(rows, lease.key, expires, newRevision, now)
       IN  /\ rows' = st.tbl
           /\ ret' = [Call("KeepAlive", lease.key) EXCEPT
                         !.pre = PreOf(rows, lease.key, now),
                         !.err = Outcome(st.n, "NotFound")]
    /\ nextRev' = nextRev + 1
    /\ Replicate
    /\ UNCHANGED <<now, calls, bgVars>>

(* ----------------------------- environment ---------------------------- *)

\* the smaller of two numbers
Min(a, b) == IF a <= b THEN a ELSE b

\* a cycle that takes rows that have an expiry, passed or not
SweepAnyExpiry ==
    /\ loops.expiry = "running" /\ pool = "open"
    /\ LET expired == {r \in rows : r.expires # NULL}
       IN  /\ expired # {} \/ "expiry" \in loops.failed
           /\ \E del \in SUBSET expired :
                 /\ Cardinality(del) = Min(ExpiryBatchSize, Cardinality(expired))
                 /\ rows' = rows \ del
    /\ Replicate
    /\ loops' = [loops EXCEPT !.failed = @ \ {"expiry"}]
    /\ UNCHANGED <<now, nextRev, ret, calls>>
    /\ UNCHANGED <<daemonVars, cfg, ctx, wg, closePc, pool, poolConfig, feedPos, buf, watchers>>

\* a cycle that takes every expired row, however many there are
SweepUnbounded ==
    /\ loops.expiry = "running" /\ pool = "open"
    /\ LET expired == {r \in rows : Expired(r, now)}
       IN  /\ expired # {} \/ "expiry" \in loops.failed
           /\ rows' = rows \ expired
    /\ Replicate
    /\ loops' = [loops EXCEPT !.failed = @ \ {"expiry"}]
    /\ UNCHANGED <<now, nextRev, ret, calls>>
    /\ UNCHANGED <<daemonVars, cfg, ctx, wg, closePc, pool, poolConfig, feedPos, buf, watchers>>

\* one cycle of backgroundExpiry that does not fail: of the expired rows,
\* ExpiryBatchSize go, or all when there are fewer
Sweep ==
    /\ loops.expiry = "running" /\ pool = "open"
    /\ LET expired == {r \in rows : Expired(r, now)}
       IN  /\ expired # {} \/ "expiry" \in loops.failed
           /\ \E del \in SUBSET expired :
                 /\ Cardinality(del) = Min(ExpiryBatchSize, Cardinality(expired))
                 /\ rows' = rows \ del
    /\ Replicate
    /\ loops' = [loops EXCEPT !.failed = @ \ {"expiry"}]
    /\ UNCHANGED <<now, nextRev, ret, calls>>
    /\ UNCHANGED <<daemonVars, cfg, ctx, wg, closePc, pool, poolConfig, feedPos, buf, watchers>>

\* the store's clock advances
Tick ==
    /\ now < MaxTime
    /\ now' = now + 1
    /\ UNCHANGED <<rows, nextRev, ret, calls, stream, bgVars>>

\* the end keys a caller may pass to GetRange: a key, or one past all keys
EndKeys == Keys \cup {<<2>>}
\* a lease's expiry is not read by KeepAlive
Leases == [key : Keys, expires : {ZeroTime, MaxTime * SubTicks}]
\* an expected item's expiry is not read by CompareAndSwap
Expecteds == [key : Keys, value : Values, expires : {ZeroTime}]
\* the argument pairs of CompareAndSwap: every pair on one key, and for
\* two different keys one pair of items
Swaps ==
    {s \in Expecteds \X Items :
        /\ s[2].expires \in {ZeroTime, MaxTime * SubTicks}
        /\ \/ s[1].key = s[2].key
           \/ s[1].value = "1" /\ s[2].value = "1" /\ s[2].expires = ZeroTime}

\* the backend called by one caller at a time
Next ==
    \/ \E i \in Items : Create(i)
    \/ \E i \in Items : Put(i)
    \/ \E s \in Swaps : CompareAndSwap(s[1], s[2])
    \/ \E i \in Items : Update(i)
    \/ \E k \in Keys : Get(k)
    \/ \E lo \in Keys, hi \in EndKeys, n \in Limits : GetRange(lo, hi, n)
    \/ \E k \in Keys : Delete(k)
    \/ \E lo \in Keys, hi \in EndKeys : DeleteRange(lo, hi)
    \/ \E k \in Keys, e \in Times :
          KeepAlive([key |-> k, expires |-> ZeroTime], e)
    \/ Sweep
    \/ Tick

Spec == Init /\ [][Next]_vars

(* ------------------------ concurrent callers -------------------------- *)
(* Two callers inside CompareAndSwap at the same time.  A call checks its  *)
(* keys and draws its revision, then its UPDATE runs as one statement of   *)
(* the store; the statements of the two callers, the writes of other      *)
(* clients and the clock interleave freely.                               *)

\* CompareAndSwap up to the statement: the key check and newRevision()
CompareAndSwapBegin(p, expected, replaceWith) ==
    /\ calls[p].pc = "idle"
    /\ LET call == [NoCall EXCEPT !.op = "CompareAndSwap",
                                  !.key = replaceWith.key,
                                  !.expValue = expected.value,
                                  !.value = replaceWith.value,
                                  !.expires = replaceWith.expires]
       IN  IF expected.key # replaceWith.key
           THEN /\ calls' = [calls EXCEPT ![p] =
                               [call EXCEPT !.pc = "done", !.err = "BadParameter"]]
                /\ UNCHANGED nextRev
           ELSE /\ nextRev <= MaxRev
                /\ calls' = [calls EXCEPT ![p] =
                               [call EXCEPT !.pc = "exec", !.rev = newRevision]]
                /\ nextRev' = nextRev + 1
    /\ UNCHANGED <<rows, now, ret, stream, bgVars>>

\* the revision of the row at key k, 0 when there is none
RevisionAt(tbl, k) ==
    IF Conflict(tbl, k) = {} THEN 0
    ELSE (CHOOSE r \in Conflict(tbl, k) : TRUE).revision

\* CompareAndSwap from the statement on: the UPDATE and the result
CompareAndSwapExec(p) ==
    /\ calls[p].pc = "exec" /\ calls[p].op = "CompareAndSwap"
    /\ pool = "open"
    /\ LET c == calls[p]
           st == CompareAndSwapStmt(rows, c.expValue,
                    [key |-> c.key, value |-> c.value, expires |-> c.expires],
                    c.rev, now)
       IN  /\ rows' = st.tbl
           /\ calls' = [calls EXCEPT ![p] =
                           [c EXCEPT !.pc = "done",
                                     !.saw = RevisionAt(rows, c.key),
                                     !.overlapped =
                                        \E q \in Procs \ {p} :
                                           calls[q].pc = "exec",
                                     !.err = Outcome(st.n, "CompareFailed")]]
    /\ Replicate
    /\ UNCHANGED <<now, nextRev, ret, bgVars>>

\* the key the concurrent callers and the other writers work on
SharedKey == <<1>>

NextConcurrent ==
    \/ \E p \in Procs, s \in Swaps :
          /\ s[1].key = SharedKey /\ s[2].key = SharedKey
          /\ CompareAndSwapBegin(p, s[1], s[2])
    \/ \E p \in Procs : CompareAndSwapExec(p)
    \/ \E i \in Items : i.key = SharedKey /\ Put(i)
    \/ Tick

SpecConcurrent == Init /\ [][NextConcurrent]_vars

(* Two callers inside Create at the same time, and a third client that     *)
(* deletes the key.                                                        *)

\* Create up to the statement: newRevision()
CreateBegin(p, i) ==
    /\ calls[p].pc = "idle"
    /\ nextRev <= MaxRev
    /\ calls' = [calls EXCEPT ![p] =
                    [NoCall EXCEPT !.op = "Create", !.key = i.key,
                                   !.value = i.value, !.expires = i.expires,
                                   !.pc = "exec", !.rev = newRevision]]
    /\ nextRev' = nextRev + 1
    /\ UNCHANGED <<rows, now, ret, stream, bgVars>>

\* the item a Create or Put call c was given
ItemOfCall(c) == [key |-> c.key, value |-> c.value, expires |-> c.expires]

\* a Create that does not see what a call that ran while it was in flight
\* wrote: it inserts over that row
CreateExecBlind(p) ==
    /\ calls[p].pc = "exec" /\ calls[p].op = "Create"
    /\ pool = "open"
    /\ LET c == calls[p]
           hidden == \E q \in Procs \ {p} :
                        /\ calls[q].pc = "done" /\ calls[q].overlapped
                        /\ calls[q].err = "OK"
                        /\ RevisionAt(rows, c.key) = calls[q].rev
           st == IF hidden THEN PutStmt(rows, ItemOfCall(c), c.rev)
                 ELSE CreateStmt(rows, ItemOfCall(c), c.rev, now)
       IN  /\ rows' = st.tbl
           /\ calls' = [calls EXCEPT ![p] =
                           [c EXCEPT !.pc = "done",
                                     !.saw = RevisionAt(rows, c.key),
                                     !.overlapped =
                                        \E q \in Procs \ {p} :
                                           calls[q].pc = "exec",
                                     !.err = Outcome(st.n, "AlreadyExists")]]
    /\ Replicate
    /\ UNCHANGED <<now, nextRev, ret, bgVars>>

\* Create from the statement on: the INSERT and the result
CreateExec(p) ==
    /\ calls[p].pc = "exec" /\ calls[p].op = "Create"
    /\ pool = "open"
    /\ LET c == calls[p]
           st == CreateStmt(rows, ItemOfCall(c), c.rev, now)
       IN  /\ rows' = st.tbl
           /\ calls' = [calls EXCEPT ![p] =
                           [c EXCEPT !.pc = "done",
                                     !.saw = RevisionAt(rows, c.key),
                                     !.overlapped =
                                        \E q \in Procs \ {p} :
                                           calls[q].pc = "exec",
                                     !.err = Outcome(st.n, "AlreadyExists")]]
    /\ Replicate
    /\ UNCHANGED <<now, nextRev, ret, bgVars>>

NextCreate ==
    \/ \E p \in Procs, i \in Items : i.key = SharedKey /\ CreateBegin(p, i)
    \/ \E p \in Procs : CreateExec(p)
    \/ Delete(SharedKey)
    \/ Tick

SpecCreate == Init /\ [][NextCreate]_vars

(* pgcommon.Retry around the statement of a write: an attempt that the     *)
(* store aborts with a serialization failure is rolled back and the        *)
(* statement is run again, until the attempts are used up.                 *)

\* Delete up to the statement
DeleteBegin(p, k) ==
    /\ calls[p].pc = "idle"
    /\ calls' = [calls EXCEPT ![p] =
                    [NoCall EXCEPT !.op = "Delete", !.key = k, !.pc = "exec"]]
    /\ UNCHANGED <<rows, now, nextRev, ret, stream, bgVars>>

\* Delete from the statement on: the DELETE and the result
DeleteExec(p) ==
    /\ calls[p].pc = "exec" /\ calls[p].op = "Delete"
    /\ pool = "open"
    /\ LET c == calls[p]
           st == DeleteStmt(rows, c.key, now)
       IN  /\ rows' = st.tbl
           /\ calls' = [calls EXCEPT ![p] =
                           [c EXCEPT !.pc = "done",
                                     !.saw = RevisionAt(rows, c.key),
                                     !.overlapped =
                                        \E q \in Procs \ {p} :
                                           calls[q].pc = "exec",
                                     !.err = Outcome(st.n, "NotFound")]]
    /\ Replicate
    /\ UNCHANGED <<now, nextRev, ret, bgVars>>

\* the call after one more failed attempt: Retry runs the statement again,
\* or returns the failure when the attempts are used up
Failed(c) ==
    IF c.tries + 1 < MaxAttempts THEN [c EXCEPT !.tries = @ + 1]
    ELSE [c EXCEPT !.tries = @ + 1, !.pc = "done", !.err = "Failure"]

\* a failed attempt of Create whose insert stays in the table
RetryConflictKeepsWrite(p) ==
    /\ calls[p].pc = "exec" /\ pool = "open"
    /\ calls' = [calls EXCEPT ![p] = Failed(calls[p])]
    /\ rows' = IF calls[p].op = "Create"
               THEN CreateStmt(rows, ItemOfCall(calls[p]), calls[p].rev, now).tbl
               ELSE rows
    /\ Replicate
    /\ UNCHANGED <<now, nextRev, ret, bgVars>>

\* an attempt fails with a serialization failure: the store has rolled its
\* transaction back
RetryConflict(p) ==
    /\ calls[p].pc = "exec" /\ pool = "open"
    /\ calls' = [calls EXCEPT ![p] = Failed(calls[p])]
    /\ rows' = rows
    /\ Replicate
    /\ UNCHANGED <<now, nextRev, ret, bgVars>>

NextRetry ==
    \/ \E p \in Procs, i \in Items : i.key = SharedKey /\ CreateBegin(p, i)
    \/ \E p \in Procs : CreateExec(p)
    \/ \E p \in Procs : DeleteBegin(p, SharedKey)
    \/ \E p \in Procs : DeleteExec(p)
    \/ \E p \in Procs : RetryConflict(p)
    \/ Tick

SpecRetry == Init /\ [][NextRetry]_vars

(* Every call passes its context to the pool: cancelling the context while *)
(* the call is in flight aborts the call.                                  *)

\* Put up to the statement: newRevision()
PutBegin(p, i) ==
    /\ calls[p].pc = "idle"
    /\ nextRev <= MaxRev
    /\ calls' = [calls EXCEPT ![p] =
                    [NoCall EXCEPT !.op = "Put", !.key = i.key,
                                   !.value = i.value, !.expires = i.expires,
                                   !.pc = "exec", !.rev = newRevision]]
    /\ nextRev' = nextRev + 1
    /\ UNCHANGED <<rows, now, ret, stream, bgVars>>

\* Put from the statement on: the INSERT and the result
PutExec(p) ==
    /\ calls[p].pc = "exec" /\ calls[p].op = "Put"
    /\ pool = "open"
    /\ LET c == calls[p]
           st == PutStmt(rows, ItemOfCall(c), c.rev)
       IN  /\ rows' = st.tbl
           /\ calls' = [calls EXCEPT ![p] =
                           [c EXCEPT !.pc = "done",
                                     !.saw = RevisionAt(rows, c.key),
                                     !.overlapped =
                                        \E q \in Procs \ {p} :
                                           calls[q].pc = "exec"]]
    /\ Replicate
    /\ UNCHANGED <<now, nextRev, ret, bgVars>>

\* Get up to the query
GetBegin(p, k) ==
    /\ calls[p].pc = "idle"
    /\ calls' = [calls EXCEPT ![p] =
                    [NoCall EXCEPT !.op = "Get", !.key = k, !.pc = "exec"]]
    /\ UNCHANGED <<rows, now, nextRev, ret, stream, bgVars>>

\* Get from the query on: the SELECT and the result, the item's value
GetExec(p) ==
    /\ calls[p].pc = "exec" /\ calls[p].op = "Get"
    /\ pool = "open"
    /\ LET c == calls[p]
           item == GetQuery(rows, c.key, now)
       IN  calls' = [calls EXCEPT ![p] =
                        [c EXCEPT !.pc = "done",
                                  !.saw = RevisionAt(rows, c.key),
                                  !.value = IF item = <<>> THEN ""
                                            ELSE item[1].value,
                                  !.err = IF item = <<>> THEN "NotFound"
                                          ELSE "OK"]]
    /\ UNCHANGED <<rows, now, nextRev, ret, stream, bgVars>>

\* what the statement of the in-flight call c leaves of the table
Applied(c, tbl) ==
    IF c.op = "Put" THEN PutStmt(tbl, ItemOfCall(c), c.rev).tbl ELSE tbl

\* a cancelled Put that leaves its value in the row it found, without the
\* expiry and the revision
CancelHalfWritten(p) ==
    /\ calls[p].pc = "exec" /\ pool = "open"
    /\ rows' = {IF r.key = calls[p].key /\ calls[p].op = "Put"
                THEN [r EXCEPT !.value = calls[p].value] ELSE r : r \in rows}
    /\ calls' = [calls EXCEPT ![p] =
                    [@ EXCEPT !.pc = "done", !.err = "Canceled"]]
    /\ Replicate
    /\ UNCHANGED <<now, nextRev, ret, bgVars>>

\* the context of the call in flight is cancelled: the call returns the
\* cancellation error; the store has run its statement, or has not
Cancel(p) ==
    /\ calls[p].pc = "exec" /\ pool = "open"
    /\ \E tbl \in {rows, Applied(calls[p], rows)} : rows' = tbl
    /\ calls' = [calls EXCEPT ![p] =
                    [@ EXCEPT !.pc = "done", !.err = "Canceled"]]
    /\ Replicate
    /\ UNCHANGED <<now, nextRev, ret, bgVars>>

NextCancel ==
    \/ \E p \in Procs, i \in Items : i.key = SharedKey /\ PutBegin(p, i)
    \/ \E p \in Procs : PutExec(p)
    \/ \E p \in Procs : GetBegin(p, SharedKey)
    \/ \E p \in Procs : GetExec(p)
    \/ \E p \in Procs : Cancel(p)
    \/ Tick

SpecCancel == Init /\ [][NextCancel]_vars

(* Several backends, each on a machine with its own clock, share the       *)
(* store.  Backend.Clock hands that clock out, and no operation reads it.  *)

\* what the clock of a backend's machine may show, whatever the store's
\* time is
LocalClocks == 1..(MaxTime + 1)

\* a Get that asks for the rows live at the time of the backend's own clock
GetByLocalTime(clock, k) ==
    /\ pool = "open"
    /\ LET item == GetQuery(rows, k, clock)
       IN  ret' = [Call("Get", k) EXCEPT
                      !.pre = PreOf(rows, k, clock),
                      !.err = IF item = <<>> THEN "NotFound" ELSE "OK",
                      !.items = item]
    /\ UNCHANGED <<rows, now, nextRev, calls, stream, bgVars>>

\* the operations, called on a backend whose machine's clock shows clock
GetBy(clock, k) == Get(k)
CreateBy(clock, i) == Create(i)
UpdateBy(clock, i) == Update(i)
DeleteBy(clock, k) == Delete(k)
KeepAliveBy(clock, lease, expires) == KeepAlive(lease, expires)
CompareAndSwapBy(clock, expected, replaceWith) ==
    CompareAndSwap(expected, replaceWith)
GetRangeBy(clock, startKey, endKey, limit) == GetRange(startKey, endKey, limit)

\* backends with any clocks work on one key of the store
NextReplicas ==
    \/ \E c \in LocalClocks, i \in ItemsOn(SharedKey) : CreateBy(c, i)
    \/ \E c \in LocalClocks, i \in ItemsOn(SharedKey) : UpdateBy(c, i)
    \/ \E c \in LocalClocks : GetBy(c, SharedKey)
    \/ \E c \in LocalClocks, n \in Limits :
          GetRangeBy(c, SharedKey, SharedKey, n)
    \/ \E c \in LocalClocks : DeleteBy(c, SharedKey)
    \/ \E c \in LocalClocks, e \in Times :
          KeepAliveBy(c, [key |-> SharedKey, expires |-> ZeroTime], e)
    \/ \E c \in LocalClocks, s \in Swaps :
          /\ s[1].key = SharedKey /\ s[2].key = SharedKey
          /\ CompareAndSwapBy(c, s[1], s[2])
    \/ Tick

SpecReplicas == Init /\ [][NextReplicas]_vars

(* ---------------------------- configuration ---------------------------- *)
(* Config.CheckAndSetDefaults, the first thing NewWithConfig runs.  A      *)
(* types.Duration is counted in seconds here.                              *)

StaticAuth == ""
AzureADAuth == "azure"

defaultChangeFeedBatchSize == 1000
\* backend.DefaultPollStreamPeriod
defaultChangeFeedInterval == 1
defaultExpiryBatchSize == 1000
defaultExpiryInterval == 30

\* the values a caller may give an interval or a batch size: negative, zero,
\* or positive and not the default
Durations == {-1, 0, 2}
Sizes == {-1, 0, 2}

\* the Config values a caller may pass; the connection string is not read
\* by CheckAndSetDefaults
AllConfigs ==
    [AuthMode : {StaticAuth, AzureADAuth, "aws"},
     ChangeFeedPollInterval : Durations, ChangeFeedBatchSize : Sizes,
     DisableExpiry : BOOLEAN,
     ExpiryInterval : Durations, ExpiryBatchSize : Sizes]

\* an AuthMode.Check that knows static credentials only
AuthModeCheckStaticOnly(a) ==
    IF a = StaticAuth THEN "OK" ELSE "BadParameter"

\* AuthMode.Check
AuthModeCheck(a) ==
    IF a \in {StaticAuth, AzureADAuth} THEN "OK" ELSE "BadParameter"

\* a default that also replaces a value the caller gave
SetDefaultAlways(v, d) == d

\* if v == 0 { v = d }
SetDefault(v, d) == IF v = 0 THEN d ELSE v

\* Config.CheckAndSetDefaults: the Config as the call leaves it, and the
\* error it returns; a field checked before the one that fails has got its
\* default by then
CheckAndSetDefaults(c) ==
    LET c1 == [c EXCEPT !.ChangeFeedPollInterval =
                           SetDefault(@, defaultChangeFeedInterval)]
        c2 == [c1 EXCEPT !.ChangeFeedBatchSize =
                           SetDefault(@, defaultChangeFeedBatchSize)]
        c3 == [c2 EXCEPT !.ExpiryInterval =
                           SetDefault(@, defaultExpiryInterval)]
        c4 == [c3 EXCEPT !.ExpiryBatchSize =
                           SetDefault(@, defaultExpiryBatchSize)]
    IN  IF AuthModeCheck(c.AuthMode) # "OK"
        THEN [cfg |-> c, err |-> "BadParameter"]
        ELSE IF c.ChangeFeedPollInterval < 0
        THEN [cfg |-> c, err |-> "BadParameter"]
        ELSE IF c1.ChangeFeedBatchSize < 0
        THEN [cfg |-> c1, err |-> "BadParameter"]
        ELSE IF c2.ExpiryInterval < 0
        THEN [cfg |-> c2, err |-> "BadParameter"]
        ELSE IF c3.ExpiryBatchSize < 0
        THEN [cfg |-> c3, err |-> "BadParameter"]
        ELSE [cfg |-> c4, err |-> "OK"]

\* a caller holds any Config, and no backend has been made
InitConfig ==
    /\ InitStore
    /\ cfg \in AllConfigs
    /\ ctx = "none"
    /\ loops = [expiry |-> "off", feed |-> "off", failed |-> {}]
    /\ wg = 0
    /\ pool = "none"
    /\ poolConfig = NoPoolConfig

\* a call of cfg.CheckAndSetDefaults()
CheckConfig ==
    /\ pool = "none"
    /\ cfg' = CheckAndSetDefaults(cfg).cfg
    /\ ret' = [Call("CheckAndSetDefaults", NoKey) EXCEPT
                  !.err = CheckAndSetDefaults(cfg).err]
    /\ UNCHANGED <<rows, now, nextRev, calls, stream>>
    /\ UNCHANGED <<daemonVars, ctx, wg, loops, closePc, pool, poolConfig, feedPos, buf, watchers>>

NextConfig == CheckConfig

SpecConfig == InitConfig /\ [][NextConfig]_vars

(* ------------------------ change feed and watchers -------------------- *)
(* backgroundChangeFeed attaches to the store's change stream, then reads  *)
(* it in batches and gives every change to the watch buffer, which hands   *)
(* it to each open watcher.                                                *)

\* the change feed attaches: the buffer is initialised and the watchers
\* that were waiting for it are open
FeedConnect ==
    /\ loops.feed = "connecting" /\ pool = "open"
    /\ loops' = [loops EXCEPT !.feed = "streaming", !.failed = @ \ {"feed"}]
    /\ watchers' = [w \in DOMAIN watchers |->
                       IF watchers[w].state = "waiting"
                       THEN [watchers[w] EXCEPT !.state = "open",
                                                !.sub = buf.emitted]
                       ELSE watchers[w]]
    /\ UNCHANGED <<rows, now, nextRev, ret, calls, stream>>
    /\ UNCHANGED <<daemonVars, cfg, ctx, wg, closePc, pool, poolConfig, feedPos, buf>>

\* a buffer that drops the event for a watcher that is full
DeliverOrDrop(wr, e) ==
    IF wr.state # "open" \/ Len(wr.queue) >= BufferCapacity THEN wr
    ELSE [wr EXCEPT !.queue = Append(@, e)]

\* the buffer hands event e to one watcher: a watcher that already holds
\* BufferCapacity unread events is closed with an error
Deliver(wr, e) ==
    IF wr.state # "open" THEN wr
    ELSE IF Len(wr.queue) >= BufferCapacity
         THEN [wr EXCEPT !.state = "closed", !.queue = <<>>,
                         !.overflow = TRUE]
         ELSE [wr EXCEPT !.queue = Append(@, e)]

\* the buffer is given the events es, one after the other
RECURSIVE Emit(_, _)
Emit(ws, es) ==
    IF es = <<>> THEN ws
    ELSE Emit([w \in DOMAIN ws |-> Deliver(ws[w], Head(es))], Tail(es))

\* one cycle of the change feed that does not fail: the next changes of
\* the stream, at most ChangeFeedBatchSize, go to the buffer in order
FeedPoll ==
    /\ loops.feed = "streaming" /\ pool = "open"
    /\ \E n \in Min(1, Len(stream) - feedPos)
                  ..Min(ChangeFeedBatchSize, Len(stream) - feedPos) :
          /\ n > 0 \/ "feed" \in loops.failed
          /\ feedPos' = feedPos + n
          /\ IF buf.closed
             THEN UNCHANGED <<buf, watchers>>
             ELSE /\ buf' = [buf EXCEPT !.emitted = @ + n]
                  /\ watchers' =
                        Emit(watchers, SubSeq(stream, feedPos + 1, feedPos + n))
    /\ loops' = [loops EXCEPT !.failed = @ \ {"feed"}]
    /\ UNCHANGED <<rows, now, nextRev, ret, calls, stream>>
    /\ UNCHANGED <<daemonVars, cfg, ctx, wg, closePc, pool, poolConfig>>

\* a cycle of the change feed that ends the loop
FeedFailsAndStops ==
    /\ loops.feed \in {"connecting", "streaming"}
    /\ loops' = [loops EXCEPT !.feed = "exited", !.failed = @ \cup {"feed"}]
    /\ wg' = wg - 1
    /\ UNCHANGED <<rows, now, nextRev, ret, calls, stream>>
    /\ UNCHANGED <<daemonVars, cfg, ctx, closePc, pool, poolConfig, feedPos, buf, watchers>>

\* a cycle of the change feed fails: the error is logged, and the loop
\* tries again at its next cycle
FeedFails ==
    /\ loops.feed \in {"connecting", "streaming"}
    /\ loops' = [loops EXCEPT !.failed = @ \cup {"feed"}]
    /\ UNCHANGED <<rows, now, nextRev, ret, calls, stream>>
    /\ UNCHANGED <<daemonVars, cfg, ctx, wg, closePc, pool, poolConfig, feedPos, buf, watchers>>

\* backgroundChangeFeed returns once its context is cancelled
FeedExit ==
    /\ loops.feed \in {"connecting", "streaming"}
    /\ ctx = "cancelled"
    /\ loops' = [loops EXCEPT !.feed = "exited", !.failed = @ \ {"feed"}]
    /\ wg' = wg - 1
    /\ UNCHANGED <<rows, now, nextRev, ret, calls, stream>>
    /\ UNCHANGED <<daemonVars, cfg, ctx, closePc, pool, poolConfig, feedPos, buf, watchers>>

\* a cycle of backgroundExpiry fails: the error is logged, and the loop
\* tries again at its next cycle
SweepFails ==
    /\ loops.expiry = "running"
    /\ loops' = [loops EXCEPT !.failed = @ \cup {"expiry"}]
    /\ UNCHANGED <<rows, now, nextRev, ret, calls, stream>>
    /\ UNCHANGED <<daemonVars, cfg, ctx, wg, closePc, pool, poolConfig, feedPos, buf, watchers>>

\* backgroundExpiry returns once its context is cancelled
ExpiryExit ==
    /\ loops.expiry = "running"
    /\ ctx = "cancelled"
    /\ loops' = [loops EXCEPT !.expiry = "exited", !.failed = @ \ {"expiry"}]
    /\ wg' = wg - 1
    /\ UNCHANGED <<rows, now, nextRev, ret, calls, stream>>
    /\ UNCHANGED <<daemonVars, cfg, ctx, closePc, pool, poolConfig, feedPos, buf, watchers>>

\* a NewWatcher that hands the new watcher the last event the buffer was
\* given before
NewWatcherWithReplay(w) ==
    /\ pool = "open" /\ ~buf.closed
    /\ w \notin DOMAIN watchers
    /\ watchers' = [v \in DOMAIN watchers \cup {w} |->
                       IF v # w THEN watchers[v]
                       ELSE [NoWatcher EXCEPT
                               !.state = IF loops.feed = "streaming"
                                         THEN "open" ELSE "waiting",
                               !.sub = buf.emitted,
                               !.queue = IF buf.emitted > 0
                                         THEN <<stream[buf.emitted]>>
                                         ELSE <<>>]]
    /\ UNCHANGED <<rows, now, nextRev, ret, calls, stream>>
    /\ UNCHANGED <<daemonVars, cfg, ctx, wg, loops, closePc, pool, poolConfig, feedPos, buf>>

\* Backend.NewWatcher: the buffer registers the watcher
NewWatcher(w) ==
    /\ pool = "open" /\ ~buf.closed
    /\ w \notin DOMAIN watchers
    /\ watchers' = [v \in DOMAIN watchers \cup {w} |->
                       IF v # w THEN watchers[v]
                       ELSE [NoWatcher EXCEPT
                               !.state = IF loops.feed = "streaming"
                                         THEN "open" ELSE "waiting",
                               !.sub = buf.emitted]]
    /\ UNCHANGED <<rows, now, nextRev, ret, calls, stream>>
    /\ UNCHANGED <<daemonVars, cfg, ctx, wg, loops, closePc, pool, poolConfig, feedPos, buf>>

\* the reader of a watcher takes the next event from it
Receive(w) ==
    /\ w \in DOMAIN watchers
    /\ watchers[w].state = "open"
    /\ watchers[w].queue # <<>>
    /\ watchers' = [watchers EXCEPT ![w] =
                       [@ EXCEPT !.got = Append(@, Head(watchers[w].queue)),
                                 !.queue = Tail(@)]]
    /\ UNCHANGED <<rows, now, nextRev, ret, calls, stream>>
    /\ UNCHANGED <<daemonVars, cfg, ctx, wg, loops, closePc, pool, poolConfig, feedPos, buf>>

\* the items the callers put while the change feed is followed
FeedWrites == {i \in Items : i.key = SharedKey /\ i.expires = ZeroTime}

\* Backend.Put, while the change feed is followed
FeedPut(i) == Len(stream) < MaxChanges /\ Put(i)

\* Backend.Delete, while the change feed is followed
FeedDelete(k) == Len(stream) < MaxChanges /\ Delete(k)

\* a backend whose change feed is followed by two watchers, while callers
\* put and delete
NextFeed ==
    \/ FeedConnect
    \/ FeedPoll
    \/ FeedFails
    \/ \E w \in Watchers : NewWatcher(w)
    \/ \E w \in Watchers : Receive(w)
    \/ \E i \in FeedWrites : FeedPut(i)
    \/ FeedDelete(SharedKey)

SpecFeed == Init /\ [][NextFeed]_vars

\* the change feed loop keeps running its cycles, and the reader of a
\* watcher keeps taking the events the watcher holds
SpecFeedFair ==
    /\ SpecFeed
    /\ WF_vars(FeedConnect)
    /\ WF_vars(FeedPoll)
    /\ \A w \in Watchers : WF_vars(Receive(w))

(* ------------------------------ lifecycle ------------------------------ *)
(* NewWithConfig makes the backend and starts its loops; Close cancels     *)
(* their context, waits for them, then closes the buffer and the pool.     *)

\* no backend has been made yet
InitNew ==
    /\ InitStore
    /\ cfg = [DisableExpiry |-> FALSE, ConnString |-> <<>>]
    /\ ctx = "none"
    /\ loops = [expiry |-> "off", feed |-> "off", failed |-> {}]
    /\ wg = 0
    /\ pool = "none"
    /\ poolConfig = NoPoolConfig

\* NewWithConfig, when it returns a backend
NewWithConfig(c) ==
    /\ pool = "none"
    /\ cfg' = NewBackend(c).cfg
    /\ ctx' = NewBackend(c).ctx
    /\ loops' = NewBackend(c).loops
    /\ wg' = NewBackend(c).wg
    /\ pool' = NewBackend(c).pool
    /\ poolConfig' = NewBackend(c).poolConfig
    /\ UNCHANGED <<rows, now, nextRev, ret, calls, stream>>
    /\ UNCHANGED <<daemonVars, closePc, feedPos, buf, watchers>>

\* Close: b.cancel()
CloseCancel ==
    /\ pool = "open" /\ closePc = "idle"
    /\ ctx' = "cancelled"
    /\ closePc' = "wait"
    /\ UNCHANGED <<rows, now, nextRev, ret, calls, stream>>
    /\ UNCHANGED <<daemonVars, cfg, wg, loops, pool, poolConfig, feedPos, buf, watchers>>

\* a Close that does not wait for the loops
CloseWaitNoWait ==
    /\ closePc = "wait"
    /\ closePc' = "buf"
    /\ UNCHANGED <<rows, now, nextRev, ret, calls, stream>>
    /\ UNCHANGED <<daemonVars, cfg, ctx, wg, loops, pool, poolConfig, feedPos, buf, watchers>>

\* Close: b.wg.Wait() returns when the counter is zero
CloseWait ==
    /\ closePc = "wait"
    /\ wg = 0
    /\ closePc' = "buf"
    /\ UNCHANGED <<rows, now, nextRev, ret, calls, stream>>
    /\ UNCHANGED <<daemonVars, cfg, ctx, wg, loops, pool, poolConfig, feedPos, buf, watchers>>

\* Close: b.buf.Close(), which closes every watcher
CloseBuffer ==
    /\ closePc = "buf"
    /\ buf' = [buf EXCEPT !.closed = TRUE]
    /\ watchers' = [w \in DOMAIN watchers |->
                       IF watchers[w].state \in {"waiting", "open"}
                       THEN [watchers[w] EXCEPT !.state = "closed",
                                                !.queue = <<>>]
                       ELSE watchers[w]]
    /\ closePc' = "pool"
    /\ UNCHANGED <<rows, now, nextRev, ret, calls, stream>>
    /\ UNCHANGED <<daemonVars, cfg, ctx, wg, loops, pool, poolConfig, feedPos>>

\* Close: b.pool.Close()
ClosePool ==
    /\ closePc = "pool"
    /\ pool' = "closed"
    /\ closePc' = "done"
    /\ UNCHANGED <<rows, now, nextRev, ret, calls, stream>>
    /\ UNCHANGED <<daemonVars, cfg, ctx, wg, loops, poolConfig, feedPos, buf, watchers>>

\* the item the callers write while the backend is made, runs and is closed
ShortLived == [key |-> SharedKey, value |-> "1", expires |-> 2 * SubTicks]

\* a backend from NewWithConfig to Close, with a caller on one key
NextLifecycle ==
    \/ \E c \in Configs : NewWithConfig(c)
    \/ CloseCancel
    \/ CloseWait
    \/ CloseBuffer
    \/ ClosePool
    \/ Sweep
    \/ SweepFails
    \/ ExpiryExit
    \/ FeedConnect
    \/ FeedPoll
    \/ FeedFails
    \/ FeedExit
    \/ Put(ShortLived)
    \/ Update(ShortLived)
    \/ Get(SharedKey)
    \/ GetRange(SharedKey, SharedKey, 0)
    \/ Delete(SharedKey)
    \/ KeepAlive([key |-> SharedKey, expires |-> ZeroTime], MaxTime * SubTicks)
    \/ CompareAndSwap(ShortLived, ShortLived)
    \/ Tick

SpecLifecycle == InitNew /\ [][NextLifecycle]_vars

\* a backend made with any connection string, and then used
NextStart ==
    \/ \E c \in StartConfigs : NewWithConfig(c)
    \/ FeedConnect
    \/ Sweep
    \/ Put(ShortLived)
    \/ Get(SharedKey)
    \/ Delete(SharedKey)
    \/ Tick

SpecStart == InitNew /\ [][NextStart]_vars

\* the calls of NewWithConfig that can fail, in the order it makes them
StartSteps ==
    {"CheckAndSetDefaults", "ParseConfig", "AzureBeforeConnect", "NewPool",
     "SetupAndMigrate"}

\* a NewWithConfig that returns after a failed migration without pool.Close()
NewWithConfigFailsPoolOpen(c, step) ==
    /\ pool = "none"
    /\ IF step = "CheckAndSetDefaults"
       THEN CheckAndSetDefaults(c).err # "OK"
       ELSE CheckAndSetDefaults(c).err = "OK"
    /\ step = "AzureBeforeConnect" => c.AuthMode = AzureADAuth
    /\ pool' = IF step = "SetupAndMigrate" THEN "open" ELSE "none"
    /\ ret' = [Call("NewWithConfig", NoKey) EXCEPT
                  !.err = IF step = "CheckAndSetDefaults"
                          THEN CheckAndSetDefaults(c).err ELSE step]
    /\ UNCHANGED <<rows, now, nextRev, calls, stream>>
    /\ UNCHANGED <<daemonVars, cfg, ctx, wg, loops, closePc, poolConfig, feedPos, buf, watchers>>

\* NewWithConfig, when it returns an error: the configuration is invalid,
\* or it is valid and the connection string does not parse, the Azure
\* hook cannot be made (asked for with AuthMode azure only), the pool
\* cannot be made, or the migration fails, and then the pool, which is
\* open by then, is closed.  The context, the Backend and the loops come
\* after all of these.
NewWithConfigFails(c, step) ==
    /\ pool = "none"
    /\ IF step = "CheckAndSetDefaults"
       THEN CheckAndSetDefaults(c).err # "OK"
       ELSE CheckAndSetDefaults(c).err = "OK"
    /\ step = "AzureBeforeConnect" => c.AuthMode = AzureADAuth
    /\ pool' = IF step = "SetupAndMigrate" THEN "closed" ELSE "none"
    /\ ret' = [Call("NewWithConfig", NoKey) EXCEPT
                  !.err = IF step = "CheckAndSetDefaults"
                          THEN CheckAndSetDefaults(c).err ELSE step]
    /\ UNCHANGED <<rows, now, nextRev, calls, stream>>
    /\ UNCHANGED <<daemonVars, cfg, ctx, wg, loops, closePc, poolConfig, feedPos, buf, watchers>>

\* a backend whose making may fail, made again after a failure that left
\* no pool, and then used
NextStartFails ==
    \/ \E c \in AllConfigs, step \in StartSteps : NewWithConfigFails(c, step)
    \/ \E c \in StartConfigs : NewWithConfig(c)
    \/ FeedConnect
    \/ Sweep
    \/ Put(ShortLived)
    \/ Get(SharedKey)
    \/ Delete(SharedKey)
    \/ Tick

SpecStartFails == InitNew /\ [][NextStartFails]_vars

(* ----------------------- the daemon: relogin -------------------------- *)
(* Goroutines of the daemon (gateways whose certificate has expired) call *)
(* retryWithRelogin; relogin asks the Electron app for a login modal,     *)
(* under reloginMu and the important modal semaphore.                     *)

\* what fn returns: nil, an error that relogin can resolve, another error
FnResults == {"nil", "resolvable", "other"}
\* client.IsErrorResolvableWithRelogin
IsErrorResolvableWithRelogin(e) == e = "resolvable"
\* what the Relogin call to the app returns
EventResults == {"nil", "DeadlineExceeded", "Unavailable"}

\* the variables the relogin steps leave alone
reloginFrame == <<gateways, closed, nextGateway, reply, stop, pgbkVars>>

\* retryWithRelogin up to the call of relogin: fn is called; nil and an
\* error that relogin cannot resolve are returned
RetryFn(p, out) ==
    /\ p \in Callers /\ gor[p].pc = "idle"
    /\ gor' = [gor EXCEPT ![p] =
                  [NoGor EXCEPT
                      !.fnCalls = 1, !.first = out,
                      !.pc = IF IsErrorResolvableWithRelogin(out)
                             THEN "relogin" ELSE "done",
                      !.err = IF IsErrorResolvableWithRelogin(out)
                              THEN "none" ELSE out]]
    /\ UNCHANGED <<reloginMu, semC, reloginFrame>>

\* a relogin that goes on to the semaphore without the lock
ReloginTryLockIgnored(p) ==
    /\ p \in Callers /\ gor[p].pc = "relogin"
    /\ reloginMu' = p
    /\ gor' = [gor EXCEPT ![p].pc = "acquire"]
    /\ UNCHANGED <<semC, reloginFrame>>

\* relogin: s.reloginMu.TryLock(), and the return of AlreadyExists when
\* the lock is held
ReloginTryLock(p) ==
    /\ p \in Callers /\ gor[p].pc = "relogin"
    /\ IF reloginMu # 0
       THEN /\ gor' = [gor EXCEPT ![p].pc = "done",
                                  ![p].relogin = "AlreadyExists",
                                  ![p].err = "AlreadyExists"]
            /\ UNCHANGED reloginMu
       ELSE /\ reloginMu' = p
            /\ gor' = [gor EXCEPT ![p].pc = "acquire"]
    /\ UNCHANGED <<semC, reloginFrame>>

\* a goroutine that shows another important modal comes to Acquire
ModalBegin(p) ==
    /\ p \in ModalUsers /\ gor[p].pc = "idle"
    /\ gor' = [gor EXCEPT ![p] = [NoGor EXCEPT !.pc = "acquire"]]
    /\ UNCHANGED <<reloginMu, semC, reloginFrame>>

\* an Acquire that returns nil without a send on the channel
AcquireNoSlot(p) ==
    /\ gor[p].pc = "acquire"
    /\ gor' = [gor EXCEPT ![p].holds = TRUE,
                          ![p].pc = IF p \in Callers THEN "send" ELSE "shown"]
    /\ UNCHANGED <<semC, reloginMu, reloginFrame>>

\* waitSemaphore.Acquire, case s.semC <- struct{}{}: the send goes through
\* when the channel is not full, and Acquire returns nil
Acquire(p) ==
    /\ gor[p].pc = "acquire"
    /\ semC < maxConcurrentImportantModals
    /\ semC' = semC + 1
    /\ gor' = [gor EXCEPT ![p].holds = TRUE,
                          ![p].pc = IF p \in Callers THEN "send" ELSE "shown"]
    /\ UNCHANGED <<reloginMu, reloginFrame>>

\* waitSemaphore.Acquire, case <-ctx.Done(): the caller's context is done,
\* which may be so at any time, and Acquire returns its error; relogin
\* returns it and unlocks reloginMu on the way out
AcquireDone(p) ==
    /\ gor[p].pc = "acquire"
    /\ IF p \in Callers
       THEN /\ gor' = [gor EXCEPT ![p].pc = "done",
                                  ![p].relogin = "Canceled",
                                  ![p].err = "Canceled"]
            /\ reloginMu' = 0
       ELSE /\ gor' = [gor EXCEPT ![p].pc = "idle", ![p].err = "Canceled"]
            /\ UNCHANGED reloginMu
    /\ UNCHANGED <<semC, reloginFrame>>

\* relogin: s.tshdEventsClient.Relogin is sent to the app
ReloginSend(p) ==
    /\ p \in Callers /\ gor[p].pc = "send"
    /\ gor' = [gor EXCEPT ![p].pc = "modal", ![p].sent = @ + 1]
    /\ UNCHANGED <<reloginMu, semC, reloginFrame>>

\* relogin: the app answers, or the call times out or fails; relogin
\* returns through its deferred Release and Unlock
ReloginReturn(p, out) ==
    /\ p \in Callers /\ gor[p].pc = "modal"
    /\ semC' = semC - 1
    /\ reloginMu' = 0
    /\ gor' = [gor EXCEPT ![p].holds = FALSE,
                          ![p].relogin = out,
                          ![p].pc = IF out = "nil" THEN "again" ELSE "done",
                          ![p].err = IF out = "nil" THEN "none" ELSE out]
    /\ UNCHANGED reloginFrame

\* waitSemaphore.Release by the goroutine that shows another modal
ModalRelease(p) ==
    /\ p \in ModalUsers /\ gor[p].pc = "shown"
    /\ semC' = semC - 1
    /\ gor' = [gor EXCEPT ![p].holds = FALSE, ![p].pc = "idle"]
    /\ UNCHANGED <<reloginMu, reloginFrame>>

\* a retryWithRelogin that calls fn again whatever relogin returned
RetryFnAgainAlways(p, out) ==
    /\ p \in Callers /\ gor[p].pc \in {"again", "done"}
    /\ gor[p].fnCalls = 1 /\ gor[p].relogin # "none"
    /\ gor' = [gor EXCEPT ![p].pc = "done", ![p].fnCalls = @ + 1,
                          ![p].err = out]
    /\ UNCHANGED <<reloginMu, semC, reloginFrame>>

\* retryWithRelogin after a relogin that returned nil: fn is called a
\* second time and what it returns is returned
RetryFnAgain(p, out) ==
    /\ p \in Callers /\ gor[p].pc = "again"
    /\ gor' = [gor EXCEPT ![p].pc = "done", ![p].fnCalls = @ + 1,
                          ![p].err = out]
    /\ UNCHANGED <<reloginMu, semC, reloginFrame>>

\* the goroutine is through with the call and may make another
Return(p) ==
    /\ p \in Callers /\ gor[p].pc = "done"
    /\ gor' = [gor EXCEPT ![p] = NoGor]
    /\ UNCHANGED <<reloginMu, semC, reloginFrame>>

NextRelogin ==
    \/ \E p \in Callers, out \in FnResults : RetryFn(p, out)
    \/ \E p \in Callers : ReloginTryLock(p)
    \/ \E p \in ModalUsers : ModalBegin(p)
    \/ \E p \in Goroutines : Acquire(p)
    \/ \E p \in Goroutines : AcquireDone(p)
    \/ \E p \in Callers : ReloginSend(p)
    \/ \E p \in Callers, out \in EventResults : ReloginReturn(p, out)
    \/ \E p \in ModalUsers : ModalRelease(p)
    \/ \E p \in Callers, out \in FnResults : RetryFnAgain(p, out)
    \/ \E p \in Callers : Return(p)

SpecRelogin == Init /\ [][NextRelogin]_vars

(* ----------------------- the daemon: gateways ------------------------- *)
(* CreateGateway, RemoveGateway and SetGatewayLocalPort run under s.mu,   *)
(* one at a time; Stop holds s.mu for reading from its first step to its  *)
(* last, and they wait for it.  A gateway made by the GatewayCreator has  *)
(* a URI of its own; gateway.Close() fails on a gateway that is closed.   *)

\* the keys of s.gateways
URIs == 1..(MaxGateways + 1)

\* s.gateways[k] = g, delete(s.gateways, k), and the gateway at k if any
MapSet(m, k, g) == {e \in m : e.key # k} \cup {[key |-> k, gw |-> g]}
MapDelete(m, k) == {e \in m : e.key # k}
findGateway(m, k) == {e.gw : e \in {x \in m : x.key = k}}

\* s.mu is not held by Stop
MuFree == stop.pc \in {"idle", "done"}

\* gateway.Close() on g with the set cl of closed gateways
Close(cl, g) ==
    [closed |-> cl \cup {g.id},
     err |-> IF g.id \in cl THEN "Failure" ELSE "OK"]

\* Service.removeGateway
removeGateway(m, cl, g) ==
    IF Close(cl, g).err # "OK"
    THEN [gateways |-> m, closed |-> cl, err |-> Close(cl, g).err]
    ELSE [gateways |-> MapDelete(m, g.uri), closed |-> Close(cl, g).closed,
          err |-> "OK"]

\* a daemon that shares no gateway
shouldReuseGatewayNever(m, t) == {}

\* Service.shouldReuseGateway: for a kube target, the gateways in
\* s.gateways with that target
shouldReuseGateway(m, t) ==
    IF IsKube(t) THEN {e.gw : e \in {x \in m : x.gw.target = t}} ELSE {}

\* the variables the gateway calls leave alone
gatewayFrame == <<reloginMu, semC, gor, stop, pgbkVars>>

\* Service.CreateGateway; made says whether the GatewayCreator succeeds
CreateGateway(t, port, made) ==
    /\ MuFree
    /\ LET call == [NoReply EXCEPT !.op = "CreateGateway"]
           new == [id |-> nextGateway, uri |-> nextGateway,
                   target |-> t, port |-> port]
       IN  IF ~Parses(t)
           THEN /\ reply' = [call EXCEPT !.err = "BadParameter"]
                /\ UNCHANGED <<gateways, closed, nextGateway>>
           ELSE IF shouldReuseGateway(gateways, t) # {}
           THEN /\ \E g \in shouldReuseGateway(gateways, t) :
                      reply' = [call EXCEPT !.key = g.uri, !.gw = g]
                /\ UNCHANGED <<gateways, closed, nextGateway>>
           ELSE IF ~made
           THEN /\ reply' = [call EXCEPT !.err = "Failure"]
                /\ UNCHANGED <<gateways, closed, nextGateway>>
           ELSE /\ nextGateway <= MaxGateways
                /\ gateways' = MapSet(gateways, new.uri, new)
                /\ nextGateway' = nextGateway + 1
                /\ reply' = [call EXCEPT !.key = new.uri, !.gw = new]
                /\ UNCHANGED closed
    /\ UNCHANGED gatewayFrame

\* Service.RemoveGateway
RemoveGateway(k) ==
    /\ MuFree
    /\ LET call == [NoReply EXCEPT !.op = "RemoveGateway", !.key = k]
       IN  IF findGateway(gateways, k) = {}
           THEN /\ reply' = [call EXCEPT !.err = "NotFound"]
                /\ UNCHANGED <<gateways, closed>>
           ELSE \E g \in findGateway(gateways, k) :
                   LET rm == removeGateway(gateways, closed, g)
                   IN  /\ gateways' = rm.gateways
                       /\ closed' = rm.closed
                       /\ reply' = [call EXCEPT !.err = rm.err]
    /\ UNCHANGED <<nextGateway, gatewayFrame>>

\* a SetGatewayLocalPort that closes the old gateway before it makes the
\* new one
SetGatewayLocalPortCloseFirst(k, port, made) ==
    /\ MuFree
    /\ LET call == [NoReply EXCEPT !.op = "SetGatewayLocalPort", !.key = k]
       IN  IF findGateway(gateways, k) = {}
           THEN /\ reply' = [call EXCEPT !.err = "NotFound"]
                /\ UNCHANGED <<gateways, closed, nextGateway>>
           ELSE \E old \in findGateway(gateways, k) :
                   LET rm == removeGateway(gateways, closed, old)
                       new == [old EXCEPT !.id = nextGateway, !.port = port]
                   IN  IF port = old.port
                       THEN /\ reply' = [call EXCEPT !.gw = old]
                            /\ UNCHANGED <<gateways, closed, nextGateway>>
                       ELSE IF rm.err # "OK" \/ ~made
                       THEN /\ reply' = [call EXCEPT !.err = "Failure"]
                            /\ gateways' = rm.gateways
                            /\ closed' = rm.closed
                            /\ UNCHANGED nextGateway
                       ELSE /\ nextGateway <= MaxGateways
                            /\ gateways' = MapSet(rm.gateways, k, new)
                            /\ closed' = rm.closed
                            /\ nextGateway' = nextGateway + 1
                            /\ reply' = [call EXCEPT !.gw = new]
    /\ UNCHANGED gatewayFrame

\* Service.SetGatewayLocalPort; made says whether gateway.NewWithLocalPort
\* succeeds.  The new gateway has the old one's URI and target.
SetGatewayLocalPort(k, port, made) ==
    /\ MuFree
    /\ LET call == [NoReply EXCEPT !.op = "SetGatewayLocalPort", !.key = k]
       IN  IF findGateway(gateways, k) = {}
           THEN /\ reply' = [call EXCEPT !.err = "NotFound"]
                /\ UNCHANGED <<gateways, closed, nextGateway>>
           ELSE \E old \in findGateway(gateways, k) :
                   LET rm == removeGateway(gateways, closed, old)
                       new == [old EXCEPT !.id = nextGateway, !.port = port]
                   IN  IF port = old.port
                       THEN /\ reply' = [call EXCEPT !.gw = old]
                            /\ UNCHANGED <<gateways, closed, nextGateway>>
                       ELSE IF ~made
                       THEN /\ reply' = [call EXCEPT !.err = "Failure"]
                            /\ UNCHANGED <<gateways, closed, nextGateway>>
                       ELSE IF rm.err # "OK"
                       THEN /\ nextGateway <= MaxGateways
                            /\ closed' = Close(closed, new).closed
                            /\ nextGateway' = nextGateway + 1
                            /\ reply' = [call EXCEPT !.err = rm.err]
                            /\ UNCHANGED gateways
                       ELSE /\ nextGateway <= MaxGateways
                            /\ gateways' = MapSet(rm.gateways, k, new)
                            /\ closed' = rm.closed
                            /\ nextGateway' = nextGateway + 1
                            /\ reply' = [call EXCEPT !.gw = new]
    /\ UNCHANGED gatewayFrame

\* Service.Stop: s.mu.RLock()
StopBegin ==
    /\ stop.pc = "idle"
    /\ stop' = [stop EXCEPT !.pc = "gateways"]
    /\ UNCHANGED <<closed, gateways, nextGateway, reply>>
    /\ UNCHANGED <<reloginMu, semC, gor, pgbkVars>>

\* Service.Stop: one turn of the loop over s.gateways; what
\* gateway.Close() returns is dropped
StopCloseGateway ==
    /\ stop.pc = "gateways"
    /\ \E e \in gateways :
          /\ e.key \notin stop.seen
          /\ closed' = Close(closed, e.gw).closed
          /\ stop' = [stop EXCEPT !.seen = @ \cup {e.key}]
    /\ UNCHANGED <<gateways, nextGateway, reply>>
    /\ UNCHANGED <<reloginMu, semC, gor, pgbkVars>>

\* Service.Stop: the loop is over, s.StopHeadlessWatchers()
StopHeadlessWatchers ==
    /\ stop.pc = "gateways"
    /\ \A e \in gateways : e.key \in stop.seen
    /\ stop' = [stop EXCEPT !.pc = "reporter", !.headless = "stopped"]
    /\ UNCHANGED <<closed, gateways, nextGateway, reply>>
    /\ UNCHANGED <<reloginMu, semC, gor, pgbkVars>>

\* Service.Stop: s.usageReporter.GracefulStop returns, nil or, after ten
\* seconds, an error that is logged
StopUsageReporter(out) ==
    /\ stop.pc = "reporter"
    /\ stop' = [stop EXCEPT !.pc = "cancel", !.reporter = out]
    /\ UNCHANGED <<closed, gateways, nextGateway, reply>>
    /\ UNCHANGED <<reloginMu, semC, gor, pgbkVars>>

\* a Stop that cancels the close context as its first step
StopCancelFirst ==
    /\ stop.pc \in {"gateways", "cancel"}
    /\ stop' = [stop EXCEPT !.pc = IF stop.pc = "cancel" THEN "done" ELSE @,
                            !.closeContext = "cancelled"]
    /\ UNCHANGED <<closed, gateways, nextGateway, reply>>
    /\ UNCHANGED <<reloginMu, semC, gor, pgbkVars>>

\* Service.Stop: s.cancel(), and the deferred s.mu.RUnlock()
StopCancel ==
    /\ stop.pc = "cancel"
    /\ stop' = [stop EXCEPT !.pc = "done", !.closeContext = "cancelled"]
    /\ UNCHANGED <<closed, gateways, nextGateway, reply>>
    /\ UNCHANGED <<reloginMu, semC, gor, pgbkVars>>

NextGateways ==
    \/ \E t \in Targets, port \in Ports, made \in BOOLEAN :
          CreateGateway(t, port, made)
    \/ \E k \in URIs : RemoveGateway(k)
    \/ \E k \in URIs, port \in Ports, made \in BOOLEAN :
          SetGatewayLocalPort(k, port, made)
    \/ StopBegin
    \/ StopCloseGateway
    \/ StopHeadlessWatchers
    \/ \E out \in {"stopped", "timed out"} : StopUsageReporter(out)
    \/ StopCancel

SpecGateways == Init /\ [][NextGateways]_vars

(* ------------------------------- claims ------------------------------- *)

\* a live row exists at key k
LiveAt(tbl, k, t) == \E r \in tbl : r.key = k /\ Live(r, t)

\* the one row at i.key holds i's value and, as a timestamptz, i's expiry
Holds(tbl, i) ==
    /\ Cardinality(Conflict(tbl, i.key)) = 1
    /\ \A r \in Conflict(tbl, i.key) :
          r.value = i.value /\ r.expires = ToTimestamptz(i.expires)

\* time t cut to the store's unit
Truncated(t) == (t \div SubTicks) * SubTicks

\* item i with its expiry cut to the store's unit
AsStored(i) == [i EXCEPT !.expires = Truncated(i.expires)]

\* item i has no expiry, or one that the store, at time t, has not passed
Unexpired(i, t) == i.expires = ZeroTime \/ i.expires \div SubTicks > t

\* the items, expected items and leases of a call on key k
ItemsAt(k) == {i \in Items : i.key = k}
SwapsAt(k) == {s \in Swaps : s[1].key = k /\ s[2].key = k}
LeasesAt(k) == {l \in Leases : l.key = k}

\* C1: Create(item) succeeds iff no live row exists at item.Key when it
\* executes; on a live key it fails with AlreadyExists; on an absent or an
\* expired-but-unswept key it succeeds and the row at the key then holds
\* item's value and expiry.
C1_CreateIffNoLiveRow ==
    [][ret'.op = "Create" =>
          \A i \in ItemsAt(ret'.key) : Create(i) =>
             /\ (ret'.err = "OK") <=> ~LiveAt(rows, i.key, now)
             /\ LiveAt(rows, i.key, now) => ret'.err = "AlreadyExists"
             /\ ~LiveAt(rows, i.key, now) => Holds(rows', i)]_vars

\* a Create that succeeded over an expired row that was still stored
C1_Witness ==
    /\ ret.op = "Create" /\ ret.pre = "expired" /\ ret.err = "OK"
    /\ Conflict(rows, ret.key) # {}

\* C2: CompareAndSwap with matching keys succeeds iff a live row at the key
\* holds expected.Value; on success the row holds replaceWith's value and
\* expiry (so a Get right after returns replaceWith while it is live),
\* otherwise the call fails with CompareFailed and, as after Create(a,1) and
\* a swap 1->2, a second swap expecting 1 fails.
C2_CompareAndSwapIffMatch ==
    [][(ret'.op = "CompareAndSwap" /\ ret'.err # "BadParameter") =>
          \A s \in SwapsAt(ret'.key) :
             CompareAndSwap(s[1], s[2]) =>
                LET e == s[1]
                    i == s[2]
                    match == \E r \in rows :
                                r.key = i.key /\ Live(r, now) /\ r.value = e.value
                IN  /\ (ret'.err = "OK") <=> match
                    /\ ~match => ret'.err = "CompareFailed" /\ rows' = rows
                    /\ match => Holds(rows', i)
                    /\ (match /\ Unexpired(i, now))
                          => GetQuery(rows', i.key, now') = <<AsStored(i)>>]_vars

\* the third write of a run is a swap that fails on a live row which the
\* second write left holding "2"
C2_Witness ==
    /\ ret.op = "CompareAndSwap" /\ ret.pre = "live" /\ ret.err = "CompareFailed"
    /\ nextRev = 4
    /\ \E r \in rows : r.key = ret.key /\ r.value = "2" /\ r.revision = 2

\* two finished CompareAndSwap calls on the same key with the same expected
\* value that were in flight at the same time
ConcurrentSwaps(a, b) ==
    /\ a # b
    /\ calls[a].pc = "done" /\ calls[b].pc = "done"
    /\ calls[a].err # "BadParameter" /\ calls[b].err # "BadParameter"
    /\ calls[a].key = calls[b].key
    /\ calls[a].expValue = calls[b].expValue
    /\ (calls[a].overlapped \/ calls[b].overlapped)

\* C3 as stated, where one of the two calls succeeds: of two concurrent
\* CompareAndSwap calls on the same key with the same expected value (for
\* any replaceWith values) only one succeeds and the other fails with
\* CompareFailed, in every interleaving.
C3_ExactlyOneSwapSucceeds ==
    \A a \in Procs, b \in Procs :
       (ConcurrentSwaps(a, b) /\ calls[a].err = "OK")
          => calls[b].err = "CompareFailed"

\* C3 as amended: of two concurrent CompareAndSwap calls on the same key with
\* the same expected value, when one succeeds with a replaceWith.Value that
\* differs from expected.Value and the other runs on the row as the first
\* left it (no write to the key in between), the other fails with
\* CompareFailed: exactly one of the two succeeds.
C3_SecondSwapFails ==
    \A a \in Procs, b \in Procs :
       (/\ ConcurrentSwaps(a, b)
        /\ calls[a].err = "OK"
        /\ calls[a].value # calls[a].expValue
        /\ calls[b].saw = calls[a].rev)
          => calls[b].err = "CompareFailed"

\* two overlapping swaps expecting "1": the one that drew its revision
\* second ran first and won, the other found the winner's live row and failed
C3_Witness ==
    \E a \in Procs, b \in Procs :
       /\ ConcurrentSwaps(a, b)
       /\ calls[a].err = "OK" /\ calls[a].expValue = "1" /\ calls[a].value = "2"
       /\ calls[b].saw = calls[a].rev /\ calls[b].rev < calls[a].rev
       /\ calls[b].err = "CompareFailed"
       /\ \E r \in rows : r.key = calls[a].key /\ Live(r, now)

\* C4: Update, Delete and KeepAlive on a key with no row, or whose only row
\* is expired (swept or not), fail with NotFound.
C4_NotFoundWithoutLiveRow ==
    [][(ret'.op \in {"Update", "Delete", "KeepAlive"}
          /\ ~LiveAt(rows, ret'.key, now)) =>
          /\ \A i \in ItemsAt(ret'.key) : Update(i) => ret'.err = "NotFound"
          /\ Delete(ret'.key) => ret'.err = "NotFound"
          /\ \A l \in LeasesAt(ret'.key), e \in Times :
                KeepAlive(l, e) => ret'.err = "NotFound"]_vars

\* a Delete that found only an expired row, which is still stored
C4_Witness ==
    /\ ret.op = "Delete" /\ ret.pre = "expired" /\ ret.err = "NotFound"
    /\ Conflict(rows, ret.key) # {}

\* C5: once a row's expiry has passed, reads treat it as absent although it
\* is still stored: Get on its key returns NotFound and no item, and
\* GetRange returns no item of an expired row.
C5_ExpiredInvisibleToReads ==
    [][/\ (ret' # ret /\ ret'.op = "Get" /\ ~LiveAt(rows, ret'.key, now))
             => (ret'.err = "NotFound" /\ ret'.items = <<>>)
       /\ (ret' # ret /\ ret'.op = "GetRange")
             => \A n \in 1..Len(ret'.items) :
                   ~\E r \in rows :
                       r.key = ret'.items[n].key /\ Expired(r, now)]_vars

\* a Get that returned NotFound for an expired row which is still stored
C5_Witness ==
    /\ ret.op = "Get" /\ ret.pre = "expired" /\ ret.err = "NotFound"
    /\ \E r \in rows : r.key = ret.key /\ Expired(r, now)

\* the rows GetRange(lo, hi, ...) may return at time t
InRange(tbl, lo, hi, t) ==
    {r \in tbl : Live(r, t) /\ KeyLE(lo, r.key) /\ KeyLE(r.key, hi)}

\* C6: GetRange(start, end, limit) returns only live rows with
\* start <= key <= end (bytewise, both bounds inclusive), in strictly
\* ascending key order, at most limit of them (the default limit when
\* limit <= 0), and they are the smallest such keys: no live key in range
\* below a returned key is skipped, and none is missing while the limit is
\* not reached.
C6_GetRangeSortedCapped ==
    [][(ret' # ret /\ ret'.op = "GetRange") =>
          LET got == ret'.items
              cap == IF ret'.limit > 0 THEN ret'.limit ELSE DefaultRangeLimit
              all == InRange(rows, ret'.key, ret'.endKey, now)
          IN  /\ \A n \in 1..Len(got) : \E r \in all : ItemOf(r) = got[n]
              /\ \A n \in 1..(Len(got) - 1) : KeyLess(got[n].key, got[n + 1].key)
              /\ Len(got) <= cap
              /\ \A r \in all :
                    (\E n \in 1..Len(got) : KeyLess(r.key, got[n].key))
                       => \E m \in 1..Len(got) : got[m].key = r.key
              /\ Len(got) < cap => \A r \in all :
                    \E m \in 1..Len(got) : got[m].key = r.key]_vars

\* a GetRange over the whole key space with limit 1 returned the smaller
\* of two live keys and left out the other
C6_Witness ==
    /\ ret.op = "GetRange" /\ ret.limit = 1 /\ Len(ret.items) = 1
    /\ ret.key = <<1>> /\ ret.endKey = <<2>> /\ ret.items[1].key = <<1>>
    /\ \E r \in rows : r.key = <<1, 1>> /\ Live(r, now)

\* C7 as stated: for all items, a successful Put(item) or Create(item)
\* followed immediately by Get(item.Key) returns item.Value and item.Expires.
C7_RoundTripAllItems ==
    [][(ret'.op \in {"Put", "Create"} /\ ret'.err = "OK") =>
          \A i \in ItemsAt(ret'.key) :
             (Put(i) \/ Create(i)) => GetQuery(rows', i.key, now') = <<i>>]_vars

\* C7 as amended: for all items whose Expires is zero or, cut to the
\* store's time unit, later than the store's time, a successful Put(item) or
\* Create(item) followed immediately by Get(item.Key) returns item.Value and
\* item.Expires cut to the store's time unit.
C7_RoundTripUnexpiredItems ==
    [][(ret'.op \in {"Put", "Create"} /\ ret'.err = "OK") =>
          \A i \in ItemsAt(ret'.key) :
             ((Put(i) \/ Create(i)) /\ Unexpired(i, now'))
                => GetQuery(rows', i.key, now') = <<AsStored(i)>>]_vars

\* a Create has just written an item that has an expiry and is still live
C7_Witness ==
    /\ ret.op = "Create" /\ ret.err = "OK"
    /\ \E r \in rows :
          r.key = ret.key /\ r.expires # NULL /\ r.expires > now
             /\ r.revision = nextRev - 1

\* C8: in every reachable state there is at most one row per key.
C8_OneRowPerKey == \A r1 \in rows, r2 \in rows : r1.key = r2.key => r1 = r2

\* both keys are stored and a Put has just overwritten an expired row
C8_Witness ==
    /\ ret.op = "Put" /\ ret.pre = "expired"
    /\ Cardinality(rows) = Cardinality(Keys)

\* C9: every successful Create, Put, Update, CompareAndSwap and KeepAlive
\* leaves its row with the revision the call drew, which no stored row and
\* no earlier call carries; a failed write leaves the table as it was.
C9_FreshRevisionPerWrite ==
    [][nextRev' # nextRev =>
          /\ ret'.op \in {"Create", "Put", "Update", "CompareAndSwap", "KeepAlive"}
          /\ \A r \in rows : r.revision < newRevision
          /\ newRevision' > newRevision
          /\ IF ret'.err = "OK"
             THEN /\ \A r \in Conflict(rows', ret'.key) : r.revision = newRevision
                  /\ Conflict(rows', ret'.key) # {}
                  /\ \A r \in rows' : r.key # ret'.key => r \in rows
             ELSE rows' = rows]_vars

\* a KeepAlive has just restamped a row that an earlier write had stamped
C9_Witness ==
    /\ ret.op = "KeepAlive" /\ ret.err = "OK"
    /\ \E r \in rows : r.key = ret.key /\ r.revision = nextRev - 1
    /\ nextRev > 2

\* C10: Put(item) never fails, whatever the key holds (nothing, a live row
\* or an expired unswept row), and afterwards the single row at item.Key
\* holds item's value and expiry.
C10_PutUnconditional ==
    /\ [][ret'.op = "Put" =>
             \A i \in ItemsAt(ret'.key) :
                Put(i) => (ret'.err = "OK" /\ Holds(rows', i))]_vars
    /\ [](\A i \in Items : nextRev <= MaxRev => ENABLED Put(i))

\* a Put has just replaced a live row
C10_Witness ==
    /\ ret.op = "Put" /\ ret.pre = "live" /\ ret.err = "OK"
    /\ Cardinality(Conflict(rows, ret.key)) = 1

\* C11: DeleteRange(start, end) removes every row, live or expired, whose
\* key lies in [start, end] with both ends included, returns no error also
\* when no row matches, and leaves every row outside the range as it was.
C11_DeleteRangeRemovesRange ==
    [][ret'.op = "DeleteRange" =>
          (DeleteRange(ret'.key, ret'.endKey) =>
             /\ ret'.err = "OK"
             /\ rows' \subseteq rows
             /\ \A r \in rows :
                   (r \in rows') <=>
                      ~(KeyLE(ret'.key, r.key) /\ KeyLE(r.key, ret'.endKey)))]_vars

\* a DeleteRange over exactly the key <<1, 1>> has left no row there, while
\* an expired row at <<1>>, outside the range, is still stored
C11_Witness ==
    /\ ret.op = "DeleteRange" /\ ret.err = "OK"
    /\ ret.key = <<1, 1>> /\ ret.endKey = <<1, 1>>
    /\ Conflict(rows, <<1, 1>>) = {}
    /\ \E r \in rows : r.key = <<1>> /\ Expired(r, now)
    /\ nextRev > 2

\* C12: KeepAlive(lease, newExpires) on a live row at lease.Key succeeds
\* whatever else the lease holds and whatever the row's value, expiry and
\* revision are; it sets the row's expiry to newExpires, leaves its value
\* and every other row unchanged.
C12_KeepAliveSetsExpiryOnly ==
    [][(ret'.op = "KeepAlive" /\ LiveAt(rows, ret'.key, now)) =>
          \A l \in LeasesAt(ret'.key), e \in Times :
             KeepAlive(l, e) =>
                /\ ret'.err = "OK"
                /\ \A r \in rows : r.key # l.key => r \in rows'
                /\ Cardinality(rows') = Cardinality(rows)
                /\ \A r \in rows : r.key = l.key =>
                      \E q \in rows' :
                         /\ q.key = r.key /\ q.value = r.value
                         /\ q.expires = (IF e = ZeroTime THEN NULL
                                                         ELSE e \div SubTicks)]_vars

\* a KeepAlive has just given an expiry to a live row that had been written
\* twice before
C12_Witness ==
    /\ ret.op = "KeepAlive" /\ ret.pre = "live" /\ ret.err = "OK"
    /\ nextRev = 4
    /\ \E r \in rows :
          r.key = ret.key /\ r.revision = 3 /\ r.expires # NULL

\* C13: CompareAndSwap with expected.Key # replaceWith.Key fails with
\* BadParameter without reaching the store: no row changes and no revision
\* is drawn, whatever rows exist at either key.
C13_SwapKeyMismatch ==
    [][ret'.op = "CompareAndSwap" =>
          \A s \in Swaps :
             (s[1].key # s[2].key /\ CompareAndSwap(s[1], s[2])) =>
                /\ ret'.err = "BadParameter"
                /\ rows' = rows
                /\ nextRev' = nextRev]_vars

\* a CompareAndSwap has failed with BadParameter while a live row holding
\* the expected value is stored at each of the two keys
C13_Witness ==
    /\ ret.op = "CompareAndSwap" /\ ret.err = "BadParameter"
    /\ \A k \in Keys : \E r \in rows :
          r.key = k /\ Live(r, now) /\ r.value = "1"

\* watcher w as the buffer has it; a watcher the buffer has not registered
\* holds nothing
Watcher(w) == IF w \in DOMAIN watchers THEN watchers[w] ELSE NoWatcher

\* the events watcher w has been handed, in the order it was handed them
Handed(w) == Watcher(w).got \o Watcher(w).queue

\* the changes of the stream from place a + 1 to place b
Published(a, b) == SubSeq(stream, a + 1, b)

C15_NoEventFromBeforeSubscription ==
    \A w \in Watchers :
       /\ \A n \in 1..Len(Handed(w)) : Handed(w)[n].lsn > Watcher(w).sub
       /\ Watcher(w).sub <= buf.emitted

\* a watcher that subscribed after the buffer was given two events has
\* taken a later event
C15_Witness ==
    \E w \in Watchers :
       /\ Watcher(w).sub = 2
       /\ Watcher(w).got # <<>>

\* C16: when the buffer is given an event, a watcher that already holds
\* BufferCapacity unread events is closed with an error, and every other
\* open watcher is handed the event; the change feed is never held back by
\* a watcher, and no open watcher holds more than BufferCapacity events.
C16_SlowWatcherIsClosed ==
    /\ [](\A w \in Watchers :
             /\ Len(Watcher(w).queue) <= BufferCapacity
             /\ Watcher(w).overflow => Watcher(w).state = "closed")
    /\ []((loops.feed = "streaming" /\ feedPos < Len(stream))
             => ENABLED FeedPoll)
    /\ [][(FeedPoll /\ feedPos' = feedPos + 1) =>
             \A w \in Watchers :
                Watcher(w).state = "open" =>
                   IF Len(Watcher(w).queue) >= BufferCapacity
                   THEN /\ watchers'[w].state = "closed"
                        /\ watchers'[w].overflow
                   ELSE /\ watchers'[w].state = "open"
                        /\ watchers'[w].queue =
                              Append(Watcher(w).queue, stream[feedPos'])]_vars

\* one watcher was closed for falling behind, while the other is open and
\* has taken every event the buffer was given
C16_Witness ==
    \E w, v \in Watchers :
       /\ Watcher(w).state = "closed" /\ Watcher(w).overflow
       /\ Watcher(v).state = "open" /\ Watcher(v).sub = 0
       /\ Len(Watcher(v).got) = buf.emitted
       /\ buf.emitted = MaxChanges

C18_CloseInOrder ==
    /\ [](/\ wg = Running(loops)
          /\ closePc \in {"wait", "buf", "pool", "done"} => ctx = "cancelled"
          /\ buf.closed =>
                (ctx = "cancelled" /\ Running(loops) = 0 /\ wg = 0)
          /\ pool = "closed" => buf.closed)
    /\ [][/\ (~buf.closed /\ buf'.closed) =>
                (ctx = "cancelled" /\ Running(loops) = 0 /\ pool = "open")
          /\ (pool = "open" /\ pool' = "closed") =>
                (buf.closed /\ Running(loops) = 0)
          /\ (buf.closed \/ pool = "closed") =>
                ~(Sweep \/ SweepFails \/ FeedConnect \/ FeedPoll \/ FeedFails)]_vars

\* Close has returned on a backend both of whose loops had run: an expired
\* row was swept and a change was read from the stream
C18_Witness ==
    /\ closePc = "done" /\ pool = "closed" /\ buf.closed
    /\ loops.expiry = "exited" /\ loops.feed = "exited"
    /\ feedPos > 0

\* C19: a loop is left only when its context is cancelled; after a cycle
\* that failed the loop is still there and its next cycle can run.
C19_LoopsSurviveErrors ==
    /\ [][/\ (loops.expiry = "running" /\ loops'.expiry # "running")
                => ctx = "cancelled"
          /\ (loops.feed \in {"connecting", "streaming"}
                /\ loops'.feed \notin {"connecting", "streaming"})
                => ctx = "cancelled"
          /\ SweepFails => loops'.expiry = "running"
          /\ FeedFails => loops'.feed = loops.feed]_vars
    /\ []("expiry" \in loops.failed =>
             (loops.expiry = "running" /\ ENABLED Sweep))
    /\ []("feed" \in loops.failed =>
             /\ loops.feed \in {"connecting", "streaming"}
             /\ ENABLED (FeedConnect \/ FeedPoll))

\* both loops have failed in their last cycle while the context is active
C19_Witness ==
    /\ loops.failed = {"expiry", "feed"}
    /\ ctx = "active"
    /\ loops.feed = "streaming"

\* C20: with DisableExpiry the backend has no expiry loop, only the change
\* feed loop; an expired row leaves the table only when a caller puts its
\* key again or deletes it by range, and until then Get, GetRange, Update,
\* Delete, KeepAlive and CompareAndSwap treat it as absent.
C20_DisableExpiry ==
    /\ []((pool # "none" /\ cfg.DisableExpiry) =>
             (loops.expiry = "off" /\ loops.feed # "off"))
    /\ [][cfg.DisableExpiry =>
             /\ (\E r \in rows : Expired(r, now) /\ r \notin rows')
                   => Put(ShortLived)
             /\ (\E r \in rows : r.key = SharedKey /\ Expired(r, now)) =>
                   /\ Get(SharedKey) =>
                         (ret'.err = "NotFound" /\ ret'.items = <<>>)
                   /\ GetRange(SharedKey, SharedKey, 0) => ret'.items = <<>>
                   /\ Update(ShortLived) =>
                         (ret'.err = "NotFound" /\ rows' = rows)
                   /\ Delete(SharedKey) =>
                         (ret'.err = "NotFound" /\ rows' = rows)
                   /\ KeepAlive([key |-> SharedKey, expires |-> ZeroTime],
                                MaxTime * SubTicks) =>
                         (ret'.err = "NotFound" /\ rows' = rows)
                   /\ CompareAndSwap(ShortLived, ShortLived) =>
                         (ret'.err = "CompareFailed" /\ rows' = rows)]_vars

\* on a backend made with DisableExpiry, a Delete has just failed on a row
\* that expired and is still stored when the clock has run out
C20_Witness ==
    /\ cfg.DisableExpiry /\ pool = "open"
    /\ ret.op = "Delete" /\ ret.pre = "expired" /\ ret.err = "NotFound"
    /\ Conflict(rows, SharedKey) # {}
    /\ now = MaxTime

\* the table without its revisions
Bare(tbl) ==
    {[key |-> r.key, value |-> r.value, expires |-> r.expires] : r \in tbl}

\* Create as one step of a store used by one caller at a time: it fails
\* with AlreadyExists on a live row, and else leaves the item as the only
\* row at its key
SeqCreate(tbl, i, t) ==
    IF \E r \in tbl : r.key = i.key /\ Live(r, t)
    THEN [tbl |-> tbl, err |-> "AlreadyExists"]
    ELSE [tbl |-> {r \in tbl : r.key # i.key} \cup
                  {[key |-> i.key, value |-> i.value,
                    expires |-> ToTimestamptz(i.expires)]},
          err |-> "OK"]

\* caller p's Create call takes effect in this step
CreateTakesEffect(p) ==
    calls[p].op = "Create" /\ calls[p].pc = "exec" /\ calls'[p].pc = "done"

\* two finished Create calls on the same key, of which a ran while b was in
\* flight, found no row, and left the row b then ran on
ConcurrentCreates(a, b) ==
    /\ a # b
    /\ calls[a].op = "Create" /\ calls[b].op = "Create"
    /\ calls[a].pc = "done" /\ calls[b].pc = "done"
    /\ calls[a].key = calls[b].key
    /\ calls[a].overlapped
    /\ calls[a].saw = 0
    /\ calls[b].saw = calls[a].rev

\* C21 as stated, its particular case: of two concurrent Create calls on
\* the same absent key exactly one succeeds and the other fails with
\* AlreadyExists.
C21_OneCreateSucceeds ==
    \A a \in Procs, b \in Procs :
       ConcurrentCreates(a, b) =>
          (calls[a].err = "OK" /\ calls[b].err = "AlreadyExists")

\* C21 as amended: every Create call takes effect in one step between its
\* invocation and its return, and that step is the Create of a store used
\* by one caller at a time, applied to the table as it is then; so of two
\* concurrent Create calls on the same absent key the first to run succeeds,
\* and the other fails with AlreadyExists when the row the first wrote is
\* still there and live when it runs.
C21_CreateLinearizable ==
    [][\A p \in Procs :
          /\ CreateTakesEffect(p) =>
                LET i == ItemOfCall(calls[p])
                    seq == SeqCreate(Bare(rows), i, now)
                IN  /\ calls'[p].err = seq.err
                    /\ Bare(rows') = seq.tbl
                    /\ calls'[p].saw = 0 => calls'[p].err = "OK"
                    /\ \A a \in Procs \ {p} :
                          (/\ calls[a].op = "Create" /\ calls[a].pc = "done"
                           /\ calls[a].overlapped /\ calls[a].err = "OK"
                           /\ RevisionAt(rows, i.key) = calls[a].rev
                           /\ Unexpired(ItemOfCall(calls[a]), now))
                             => calls'[p].err = "AlreadyExists"
          /\ (calls[p].pc = "idle" /\ calls'[p].pc # "idle") =>
                (calls'[p].pc = "exec" /\ rows' = rows)
          /\ calls[p].pc = "done" => calls'[p] = calls[p]]_vars

\* two overlapping Create calls of items that do not expire: the one that
\* drew its revision second ran first on the absent key and succeeded, the
\* other found its row and failed
C21_Witness ==
    \E a \in Procs, b \in Procs :
       /\ ConcurrentCreates(a, b)
       /\ calls[a].err = "OK" /\ calls[b].err = "AlreadyExists"
       /\ calls[a].expires = ZeroTime /\ calls[b].rev < calls[a].rev
       /\ \E r \in rows : r.revision = calls[a].rev /\ r.value = calls[a].value

\* caller p's call returns in this step with what its statement did
StatementRuns(p) ==
    calls[p].pc = "exec" /\ calls'[p].pc = "done" /\ calls'[p].err # "Failure"

\* an attempt of caller p's call fails in this step
AttemptFails(p) ==
    calls[p].pc = "exec" /\ calls'[p].tries = calls[p].tries + 1

\* C22: an attempt that fails with a serialization conflict changes nothing
\* and the statement is run again with the same arguments; the caller gets
\* the failure only when the attempts are used up, and then nothing was
\* applied; a call that was retried is applied in one step only, and what
\* it returns and does to the table is what its statement, run once on the
\* table as it is then, returns and does.
C22_RetryAppliesOnce ==
    /\ [][\A p \in Procs :
             /\ AttemptFails(p) =>
                   /\ rows' = rows /\ stream' = stream
                   /\ calls'[p] = Failed(calls[p])
                   /\ calls'[p].pc = "done" <=> calls'[p].tries = MaxAttempts
             /\ StatementRuns(p) =>
                   /\ calls'[p].tries = calls[p].tries
                   /\ calls[p].op = "Create" =>
                         LET st == CreateStmt(rows, ItemOfCall(calls[p]),
                                              calls[p].rev, now)
                         IN  /\ rows' = st.tbl
                             /\ calls'[p].err = Outcome(st.n, "AlreadyExists")
                   /\ calls[p].op = "Delete" =>
                         LET st == DeleteStmt(rows, calls[p].key, now)
                         IN  /\ rows' = st.tbl
                             /\ calls'[p].err = Outcome(st.n, "NotFound")
             /\ (calls[p].op = "Create"
                   /\ \E r \in rows' \ rows : r.revision = calls[p].rev)
                   => StatementRuns(p)]_vars
    /\ [](\A p \in Procs :
             /\ calls[p].err = "Failure" =>
                   (calls[p].pc = "done" /\ calls[p].tries = MaxAttempts)
             /\ (calls[p].op = "Create"
                   /\ (calls[p].pc = "exec" \/ calls[p].err = "Failure"))
                   => ~\E r \in rows : r.revision = calls[p].rev)

\* a Create whose attempts but the last failed has succeeded and its row is
\* stored, while the other caller's Create ran out of attempts
C22_Witness ==
    \E p \in Procs, q \in Procs :
       /\ calls[p].op = "Create" /\ calls[p].pc = "done"
       /\ calls[p].err = "OK" /\ calls[p].tries = MaxAttempts - 1
       /\ \E r \in rows : r.revision = calls[p].rev
       /\ calls[q].op = "Create" /\ calls[q].err = "Failure"

\* C23: a call whose context is cancelled while it is in flight returns
\* the cancellation error; the rows at other keys are untouched, and the
\* row at its key is as it was or, for a Put, is the one row of the item
\* with the call's revision: never a row that mixes the two.
C23_CancelAbortsAtomically ==
    /\ [][\A p \in Procs :
             (calls[p].pc = "exec" /\ calls'[p].err = "Canceled") =>
                LET c == calls[p]
                IN  /\ calls'[p].pc = "done"
                    /\ {r \in rows' : r.key # c.key} = {r \in rows : r.key # c.key}
                    /\ \/ rows' = rows
                       \/ /\ c.op = "Put"
                          /\ Holds(rows', ItemOfCall(c))
                          /\ RevisionAt(rows', c.key) = c.rev
                    /\ c.op = "Get" => rows' = rows]_vars
    /\ [](\A p \in Procs : \A r \in rows :
             r.revision = calls[p].rev =>
                (calls[p].op = "Put" /\ calls[p].pc = "done"
                   /\ r.key = calls[p].key /\ r.value = calls[p].value
                   /\ r.expires = ToTimestamptz(calls[p].expires)))

\* two Put calls were cancelled in flight: the row of one is stored in
\* full, the other left the table as it found it
C23_Witness ==
    \E p \in Procs, q \in Procs :
       /\ calls[p].op = "Put" /\ calls[p].err = "Canceled"
       /\ calls[q].op = "Put" /\ calls[q].err = "Canceled"
       /\ calls[q].rev < calls[p].rev
       /\ calls[p].value # calls[q].value
       /\ rows = {NewRow(calls[p].key, calls[p].value, calls[p].expires,
                         calls[p].rev)}

Settings(c) ==
    {c.ChangeFeedPollInterval, c.ChangeFeedBatchSize,
     c.ExpiryInterval, c.ExpiryBatchSize}

\* C25: CheckAndSetDefaults returns BadParameter iff the auth mode is
\* neither static nor azure or one of the two intervals and two batch
\* sizes is negative, and nil in every other case.
C25_BadParameterIffInvalid ==
    [][CheckConfig =>
          LET invalid == \/ cfg.AuthMode \notin {StaticAuth, AzureADAuth}
                         \/ \E v \in Settings(cfg) : v < 0
          IN  /\ ret'.err = "BadParameter" <=> invalid
              /\ ret'.err = "OK" <=> ~invalid]_vars

\* the call has accepted a Config with azure authentication and has
\* rejected nothing
C25_Witness ==
    /\ ret.op = "CheckAndSetDefaults" /\ ret.err = "OK"
    /\ cfg.AuthMode = AzureADAuth
    /\ cfg.ExpiryBatchSize = defaultExpiryBatchSize

\* C26: after a successful CheckAndSetDefaults every interval and batch
\* size is strictly positive: a field that was zero holds its default
\* (batch sizes 1000, expiry interval 30 seconds, change feed interval the
\* default poll period), a positive field is as it was, and a second call
\* succeeds and changes nothing.
C26_DefaultsSetOnce ==
    /\ [][(CheckConfig /\ ret'.err = "OK") =>
             /\ \A v \in Settings(cfg') : v > 0
             /\ cfg'.ChangeFeedPollInterval =
                   (IF cfg.ChangeFeedPollInterval = 0
                    THEN defaultChangeFeedInterval
                    ELSE cfg.ChangeFeedPollInterval)
             /\ cfg'.ChangeFeedBatchSize =
                   (IF cfg.ChangeFeedBatchSize = 0 THEN 1000
                    ELSE cfg.ChangeFeedBatchSize)
             /\ cfg'.ExpiryInterval =
                   (IF cfg.ExpiryInterval = 0 THEN 30 ELSE cfg.ExpiryInterval)
             /\ cfg'.ExpiryBatchSize =
                   (IF cfg.ExpiryBatchSize = 0 THEN 1000
                    ELSE cfg.ExpiryBatchSize)
             /\ cfg'.AuthMode = cfg.AuthMode
             /\ cfg'.DisableExpiry = cfg.DisableExpiry]_vars
    /\ []((ret.op = "CheckAndSetDefaults" /\ ret.err = "OK") =>
             /\ \A v \in Settings(cfg) : v > 0
             /\ CheckAndSetDefaults(cfg) = [cfg |-> cfg, err |-> "OK"])

\* the call has succeeded on a Config that had a zero expiry interval and
\* a zero change feed interval, and positive batch sizes
C26_Witness ==
    /\ ret.op = "CheckAndSetDefaults" /\ ret.err = "OK"
    /\ cfg.ExpiryInterval = defaultExpiryInterval
    /\ cfg.ChangeFeedPollInterval = defaultChangeFeedInterval
    /\ cfg.ChangeFeedBatchSize = 2 /\ cfg.ExpiryBatchSize = 2

C28_SweepTakesExpiredOnly ==
    [][Sweep =>
          /\ Cardinality(rows \ rows') <= ExpiryBatchSize
          /\ \A r \in rows \ rows' : r.expires # NULL /\ r.expires <= now
          /\ \A r \in rows : Live(r, now) => r \in rows'
          /\ rows' \subseteq rows]_vars

\* after two rows had expired a Put wrote one of them anew; the sweeper has
\* since removed the other and left the new row
C28_Witness ==
    /\ ret.op = "Put" /\ ret.pre = "expired"
    /\ nextRev = 4
    /\ \E r \in rows : rows = {r} /\ r.key = ret.key /\ r.revision = 3
                           /\ Live(r, now)
    /\ loops.expiry = "running"

\* C29 as stated: the pool's default transaction isolation is serializable
\* whenever the connection string does not set it, and is the value the
\* connection string supplies whenever it sets one.
C29_SuppliedIsolationKept ==
    pool # "none" =>
       poolConfig.isolation =
          (IF cfg.ConnString = <<>> THEN "serializable" ELSE cfg.ConnString[1])

\* C29 as amended: the pool's default transaction isolation is serializable
\* whenever the connection string does not set it or sets it to the empty
\* string; a non-empty value is kept and the override is logged; in either
\* case NewWithConfig goes on, and the backend it returns is open with its
\* loops started.
C29_IsolationSerializableUnlessSet ==
    /\ [](pool # "none" =>
             /\ (cfg.ConnString \in {<<>>, <<"">>}) =>
                   (poolConfig.isolation = "serializable"
                      /\ ~poolConfig.overridden)
             /\ (cfg.ConnString \notin {<<>>, <<"">>}) =>
                   (poolConfig.isolation = cfg.ConnString[1]
                      /\ poolConfig.overridden))
    /\ [][\A c \in StartConfigs : NewWithConfig(c) =>
             /\ pool' = "open" /\ ctx' = "active"
             /\ loops'.feed = "connecting"
             /\ cfg' = c]_vars

\* a backend made with a connection string that sets read committed has
\* started and has stored a row
C29_Witness ==
    /\ pool = "open" /\ cfg.ConnString = <<"read committed">>
    /\ poolConfig.isolation = "read committed" /\ poolConfig.overridden
    /\ loops.feed = "streaming"
    /\ rows # {}

\* the errors with which a call reports that it did not do what it was
\* asked
Refusals == {"AlreadyExists", "NotFound", "CompareFailed", "BadParameter"}

\* C30: a call that returns AlreadyExists, NotFound, CompareFailed or
\* BadParameter leaves the table as it was: the same rows, with the same
\* values, expiries and revisions. Stated step by step: a step after which
\* the last result is such an error and the table differs is not a step of
\* the call that returned it (it is a sweep following the call).
C30_FailedCallChangesNothing ==
    [][(ret'.err \in Refusals /\ rows' # rows) =>
          LET k == ret'.key
          IN  /\ ret'.op = "Create" => \A i \in ItemsOn(k) : ~Create(i)
              /\ ret'.op = "Update" => \A i \in ItemsOn(k) : ~Update(i)
              /\ ret'.op = "CompareAndSwap" =>
                    \A s \in {x \in Swaps : x[2].key = k} :
                       ~CompareAndSwap(s[1], s[2])
              /\ ret'.op = "Delete" => ~Delete(k)
              /\ ret'.op = "Get" => ~Get(k)
              /\ ret'.op = "KeepAlive" =>
                    \A l \in LeasesAt(k), e \in Times : ~KeepAlive(l, e)]_vars

\* a KeepAlive has failed on an expired row that is still stored, beside
\* a live row at the other key
C30_Witness ==
    /\ ret.op = "KeepAlive" /\ ret.pre = "expired" /\ ret.err = "NotFound"
    /\ Cardinality(rows) = Cardinality(Keys)
    /\ \E r \in rows : r.key = ret.key /\ Expired(r, now)
    /\ \E r \in rows : r.key # ret.key /\ Live(r, now)

\* the rows of a table at the keys other than k
Others(tbl, k) == {r \in tbl : r.key # k}

\* C31: Create, Put, Update, CompareAndSwap, KeepAlive and Delete leave the
\* rows at every key other than the one they are given as they are, and Get
\* and GetRange leave the whole table as it is. Stated step by step: a step
\* that changes a row at another key than that of the last call is not a
\* step of that call, and a step that changes the table is not a read.
C31_OnlyOwnKeyTouched ==
    [][LET k == ret'.key
       IN  /\ Others(rows', k) # Others(rows, k) =>
                 /\ ret'.op = "Create" => \A i \in ItemsOn(k) : ~Create(i)
                 /\ ret'.op = "Put" => \A i \in ItemsOn(k) : ~Put(i)
                 /\ ret'.op = "Update" => \A i \in ItemsOn(k) : ~Update(i)
                 /\ ret'.op = "CompareAndSwap" =>
                       \A s \in {x \in Swaps : x[2].key = k} :
                          ~CompareAndSwap(s[1], s[2])
                 /\ ret'.op = "KeepAlive" =>
                       \A l \in LeasesAt(k), e \in Times : ~KeepAlive(l, e)
                 /\ ret'.op = "Delete" => ~Delete(k)
           /\ rows' # rows =>
                 /\ ret'.op = "Get" => ~Get(k)
                 /\ ret'.op = "GetRange" =>
                       \A hi \in EndKeys, n \in Limits : ~GetRange(k, hi, n)]_vars

\* an Update has succeeded at one key while the other key holds the row
\* the first write of the run made
C31_Witness ==
    /\ ret.op = "Update" /\ ret.err = "OK"
    /\ \E r \in rows : r.key # ret.key /\ r.revision = 1
    /\ \E r \in rows : r.key = ret.key /\ r.revision = nextRev - 1

\* C32: a row that has expired and is still stored becomes live again only
\* by a Create or a Put on its key, and leaves the table only by a
\* DeleteRange or a sweep; an Update, a CompareAndSwap, a KeepAlive or a
\* Delete on its key fails (NotFound, CompareFailed for the swap) and leaves
\* the row as it is.
C32_ExpiredRowRevivedByCreateOrPut ==
    [][\A r \in rows : Expired(r, now) =>
          LET k == r.key
              failed == r \in rows' /\ ret'.err \in {"NotFound", "CompareFailed"}
          IN  /\ LiveAt(rows', k, now') =>
                    \E i \in ItemsOn(k) : Create(i) \/ Put(i)
              /\ Conflict(rows', k) = {} =>
                    \/ \E lo \in Keys, hi \in EndKeys : DeleteRange(lo, hi)
                    \/ Sweep
              /\ (ret'.key = k /\ ~failed) =>
                    /\ ret'.op = "Update" => \A i \in ItemsOn(k) : ~Update(i)
                    /\ ret'.op = "CompareAndSwap" =>
                          \A s \in SwapsAt(k) : ~CompareAndSwap(s[1], s[2])
                    /\ ret'.op = "KeepAlive" =>
                          \A l \in LeasesAt(k), e \in Times : ~KeepAlive(l, e)
                    /\ ret'.op = "Delete" => ~Delete(k)]_vars

\* an Update has failed on a row that had expired, the row is still stored
\* with the revision of the first write, and later writes have happened
C32_Witness ==
    /\ ret.op = "Update" /\ ret.pre = "expired" /\ ret.err = "NotFound"
    /\ \E r \in rows : r.key = ret.key /\ Expired(r, now) /\ r.revision = 1
    /\ nextRev > 3

\* C33: when NewWithConfig returns an error, no loop has been started (both
\* loops are off, the WaitGroup counts none, no context has been derived)
\* and no pool is left open: there is no pool, or, after a failed
\* migration, the pool that had been opened is closed.
C33_FailedStartLeaksNothing ==
    [][(ret'.op = "NewWithConfig" /\ ret' # ret) =>
          /\ ret'.err # "OK"
          /\ pool' = IF ret'.err = "SetupAndMigrate" THEN "closed" ELSE "none"
          /\ loops'.expiry = "off" /\ loops'.feed = "off"
          /\ Running(loops') = 0 /\ wg' = 0
          /\ ctx' = "none"
          /\ UNCHANGED <<rows, stream, buf, watchers>>]_vars

\* NewWithConfig has failed in the migration
C33_Witness ==
    /\ ret.op = "NewWithConfig" /\ ret.err = "SetupAndMigrate"
    /\ pool = "closed" /\ wg = 0 /\ ctx = "none"

\* a relogin of goroutine p is past TryLock and has not returned
InRelogin(p) == gor[p].pc \in {"acquire", "send", "modal"}

\* C34: at most one relogin is in progress, and it is the holder of
\* reloginMu; a relogin that finds reloginMu held returns AlreadyExists in
\* that step, takes no slot of the important modal semaphore and sends no
\* Relogin event.
C34_OneReloginAtATime ==
    /\ [](/\ Cardinality({p \in Callers : InRelogin(p)}) <= 1
          /\ \A p \in Callers : InRelogin(p) => reloginMu = p)
    /\ [][\A p \in Callers :
            (ReloginTryLock(p) /\ reloginMu # 0) =>
               /\ gor'[p].pc = "done"
               /\ gor'[p].err = "AlreadyExists"
               /\ ~gor'[p].holds /\ gor'[p].sent = 0
               /\ semC' = semC /\ reloginMu' = reloginMu]_vars

\* one goroutine's login modal is up while the other's relogin has
\* returned AlreadyExists without a modal
C34_Witness ==
    /\ gor[1].pc = "modal" /\ reloginMu = 1
    /\ gor[2].pc = "done" /\ gor[2].err = "AlreadyExists"
    /\ gor[2].sent = 0 /\ ~gor[2].holds

\* C35: retryWithRelogin calls fn at most twice, and a second time only
\* after a first call that failed with an error resolvable by relogin and a
\* relogin that returned nil; after a first call that returned nil or
\* another error there is no relogin and that result is returned; a failed
\* relogin's error is returned with no second call.
C35_SecondCallAfterRelogin ==
    \A p \in Callers :
       LET g == gor[p]
       IN  /\ g.fnCalls <= 2
           /\ g.fnCalls = 2 =>
                 IsErrorResolvableWithRelogin(g.first) /\ g.relogin = "nil"
           /\ (g.fnCalls >= 1 /\ ~IsErrorResolvableWithRelogin(g.first)) =>
                 /\ g.pc = "done" /\ g.fnCalls = 1 /\ g.err = g.first
                 /\ g.relogin = "none" /\ g.sent = 0
           /\ g.relogin \notin {"none", "nil"} =>
                 g.pc = "done" /\ g.fnCalls = 1 /\ g.err = g.relogin
           /\ (g.pc = "done" /\ g.relogin = "nil") => g.fnCalls = 2

\* a call has returned the error of its second call of fn, made after a
\* relogin that one Relogin event achieved
C35_Witness ==
    \E p \in Callers :
       /\ gor[p].pc = "done" /\ gor[p].fnCalls = 2
       /\ gor[p].first = "resolvable" /\ gor[p].relogin = "nil"
       /\ gor[p].sent = 1 /\ gor[p].err = "other"

\* the goroutines to which Acquire has returned nil and that have not run
\* Release since
Holders == {p \in Goroutines : gor[p].holds}

\* C38: the important modal semaphore has at most
\* maxConcurrentImportantModals holders, as many as semC has elements;
\* Acquire returns nil only with a send on semC that found it not full, an
\* Acquire that returns the context's error takes no slot, a Release takes
\* one element out, and while a slot is free a goroutine in Acquire can
\* take it.
C38_SemaphoreWithinCapacity ==
    /\ [](/\ Cardinality(Holders) <= maxConcurrentImportantModals
          /\ semC = Cardinality(Holders)
          /\ \A p \in Goroutines :
                (gor[p].pc = "acquire" /\ semC < maxConcurrentImportantModals)
                   => ENABLED Acquire(p))
    /\ [][\A p \in Goroutines :
            /\ (~gor[p].holds /\ gor'[p].holds) =>
                  /\ semC < maxConcurrentImportantModals
                  /\ semC' = semC + 1
            /\ (gor[p].holds /\ ~gor'[p].holds) => semC' = semC - 1
            /\ AcquireDone(p) => (~gor'[p].holds /\ semC' = semC)]_vars

\* another modal holds the one slot while a relogin waits in Acquire
C38_Witness ==
    /\ gor[3].holds /\ gor[3].pc = "shown"
    /\ gor[1].pc = "acquire" /\ ~gor[1].holds
    /\ semC = maxConcurrentImportantModals

\* the keys of a gateways map
KeysOf(m) == {e.key : e \in m}

\* C36: SetGatewayLocalPort on a URI that has no gateway returns NotFound
\* and changes nothing; with the port the gateway has, it returns that
\* gateway and changes nothing; when the new gateway cannot be made it
\* returns an error, the map is as it was and the old gateway is not
\* closed by the call; when it returns a gateway with another port, the
\* URI maps to that new, open gateway, which has the old one's target,
\* every other entry is as it was, and the old gateway is closed.
C36_PortChangeKeepsGatewayOnFailure ==
    [][reply'.op = "SetGatewayLocalPort" =>
       \A k \in {reply'.key}, port \in Ports, made \in BOOLEAN :
          SetGatewayLocalPort(k, port, made) =>
             LET old == findGateway(gateways, k)
                 new == reply'.gw
             IN  /\ old = {} =>
                       /\ reply'.err = "NotFound"
                       /\ UNCHANGED <<gateways, closed, nextGateway>>
                 /\ \A g \in old :
                       /\ port = g.port =>
                             /\ reply'.err = "OK" /\ new = g
                             /\ UNCHANGED <<gateways, closed, nextGateway>>
                       /\ (port # g.port /\ ~made) =>
                             /\ reply'.err # "OK"
                             /\ UNCHANGED <<gateways, closed>>
                       /\ (port # g.port /\ reply'.err = "OK") =>
                             /\ findGateway(gateways', k) = {new}
                             /\ new.port = port /\ new.id # g.id
                             /\ new.uri = g.uri /\ new.target = g.target
                             /\ new.id \notin closed'
                             /\ g.id \notin closed /\ g.id \in closed'
                             /\ KeysOf(gateways') = KeysOf(gateways)
                             /\ MapDelete(gateways', k) = MapDelete(gateways, k)]_vars

\* the port of the first gateway has been changed: its URI maps to a new
\* gateway and the first one is closed, beside a second gateway
C36_Witness ==
    /\ reply.op = "SetGatewayLocalPort" /\ reply.err = "OK" /\ reply.key = 1
    /\ reply.gw.id = 3
    /\ findGateway(gateways, 1) = {reply.gw}
    /\ 1 \in closed /\ 3 \notin closed
    /\ findGateway(gateways, 2) # {}

\* C37: s.gateways holds at most one gateway per kube target; a
\* CreateGateway for a kube target that has a gateway returns that gateway
\* and makes none, and a CreateGateway for another target that returns a
\* gateway has made it and put it in the map beside those that were there.
C37_OneGatewayPerKubeTarget ==
    /\ [](\A t \in Targets :
            IsKube(t) =>
               Cardinality({e \in gateways : e.gw.target = t}) <= 1)
    /\ [][reply'.op = "CreateGateway" =>
          \A t \in Targets, port \in Ports, made \in BOOLEAN :
            CreateGateway(t, port, made) =>
               LET had == {e.gw : e \in {x \in gateways : x.gw.target = t}}
               IN  /\ (IsKube(t) /\ had # {}) =>
                         /\ reply'.err = "OK" /\ reply'.gw \in had
                         /\ UNCHANGED <<gateways, nextGateway>>
                   /\ (~IsKube(t) /\ reply'.err = "OK") =>
                         /\ reply'.gw \notin {e.gw : e \in gateways}
                         /\ reply'.gw.id = nextGateway
                         /\ gateways' =
                               gateways \cup
                                  {[key |-> reply'.gw.uri, gw |-> reply'.gw]}
                         /\ Cardinality(gateways') = Cardinality(gateways) + 1]_vars

\* a second CreateGateway for the kube target has returned the gateway of
\* the first, while the database target has two gateways
C37_Witness ==
    /\ reply.op = "CreateGateway" /\ reply.err = "OK"
    /\ IsKube(reply.gw.target) /\ reply.gw.id < nextGateway - 1
    /\ Cardinality({e \in gateways : e.gw.target = "db"}) = 2
    /\ Cardinality({e \in gateways : e.gw.target = "kube"}) = 1

\* C39: the step of Stop that cancels the close context comes when every
\* gateway in s.gateways is closed, the headless watchers are stopped and
\* the usage reporter's GracefulStop has returned.
C39_CancelAfterResourcesClosed ==
    [][(stop.closeContext = "active" /\ stop'.closeContext = "cancelled") =>
          /\ \A e \in gateways : e.gw.id \in closed
          /\ stop.headless = "stopped"
          /\ stop.reporter # "running"
          /\ UNCHANGED <<gateways, closed>>]_vars

\* Stop has cancelled the close context with two gateways registered, both
\* closed, after a GracefulStop that timed out
C39_Witness ==
    /\ stop.pc = "done" /\ stop.closeContext = "cancelled"
    /\ stop.reporter = "timed out" /\ stop.headless = "stopped"
    /\ Cardinality(gateways) = 2
    /\ \A e \in gateways : e.gw.id \in closed

====
